---- MODULE Spec2Model ----
(***************************************************************************)
(* Command dispatch and hierarchical navigation engine of whimsy.          *)
(*                                                                         *)
(*   - the cursor engine TabState (src/src/rpg/players/tab.rs): three      *)
(*     cursors (surface, node, tab) into projections of a Snapshot of the  *)
(*     dock hierarchy, which the user restructures during the draw pass;   *)
(*   - the key dispatch loop (src/src/run.rs) over the binding table       *)
(*     ChoiceMap (src/src/controls/command.rs).                            *)
(*                                                                         *)
(* Vec<T> is a sequence; a usize position p of a Vec v is v[p + 1].        *)
(* Option<T> is a sequence of length 0 (None) or 1 (Some).                 *)
(***************************************************************************)
EXTENDS Integers, Sequences, FiniteSets, TLC

\* ------------------------------------------------------------------ bounds
\* Surfaces (windows) of the dock are numbered 0 .. MaxSurfaces - 1.
MaxSurfaces == 2
\* A surface holds at most MaxLeaves leaves (panels).
MaxLeaves == 2
\* The dock holds at most MaxTabs live tabs in total.
MaxTabs == 3

\* ------------------------------------------------------------ Option, Vec
None == <<>>

Some(v) == <<v>>

IsSome(o) == o # <<>>

Unwrap(o) == o[1]

\* v[i] for a usize i
At(v, i) == v[i + 1]

\* bounds check of v[i]; a negative i stands for a usize subtraction that
\* went below zero (overflow panic in a debug build, a wrap to a huge index
\* and an out-of-bounds panic in a release build)
InBounds(v, i) == i >= 0 /\ i < Len(v)

Range(v) == {v[i] : i \in 1..Len(v)}

\* Vec::dedup: removes consecutive repeated elements
Dedup(v) ==
    LET F[i \in 0..Len(v)] ==
            IF i = 0 THEN <<>>
            ELSE IF i > 1 /\ v[i] = v[i - 1] THEN F[i - 1]
            ELSE Append(F[i - 1], v[i])
    IN  F[Len(v)]

\* .iter().enumerate().filter(|(_, v)| set.contains(v)).map(|(i, _)| i)
PositionsIn(v, set) ==
    LET F[i \in 0..Len(v)] ==
            IF i = 0 THEN <<>>
            ELSE IF v[i] \in set THEN Append(F[i - 1], i - 1)
            ELSE F[i - 1]
    IN  F[Len(v)]

\* .iter().position(|v| *v == x): None or Some(first position)
Position(v, x) ==
    IF x \in Range(v)
    THEN Some((CHOOSE i \in 1..Len(v) : v[i] = x /\ \A j \in 1..(i - 1) : v[j] # x) - 1)
    ELSE None

\* ---------------------------------------------------------------- Records
Record(s, n, t) == [surface_index |-> s, node_index |-> n, tab_index |-> t]

surfaces(r) == Dedup([i \in 1..Len(r) |-> r[i].surface_index])

nodes(r) == Dedup([i \in 1..Len(r) |-> r[i].node_index])

tabs(r) == Dedup([i \in 1..Len(r) |-> r[i].tab_index])

filter_surface(r, surface) == SelectSeq(r, LAMBDA v : v.surface_index = surface)

filter_node(r, node) == SelectSeq(r, LAMBDA v : v.node_index = node)

node_ids(r, surface) ==
    LET in_surface == nodes(filter_surface(r, surface))
    IN  PositionsIn(nodes(r), Range(in_surface))

tab_ids(r, node) ==
    LET in_node == tabs(filter_node(r, node))
    IN  PositionsIn(tabs(r), Range(in_node))

\* ------------------------------------------------------- the dock hierarchy
\* The live hierarchy `tree` is kept as the list of the locations of its
\* tabs, in the order DockState::iter_all_tabs visits them: by surface, by
\* node index inside the surface, by position inside the leaf.
SurfaceIds == 0..(MaxSurfaces - 1)

\* The node indices of the leaves of a binary tree with k leaves rooted at
\* root (children of node i are 2i + 1 and 2i + 2).
RECURSIVE LeafSets(_, _)
LeafSets(root, k) ==
    IF k = 1 THEN {{root}}
    ELSE UNION {{a \cup b : a \in LeafSets(2 * root + 1, j),
                            b \in LeafSets(2 * root + 2, k - j)} : j \in 1..(k - 1)}

\* A surface: its leaves and how many tabs each holds (no leaf: no tab).
Layouts ==
    UNION {[L -> 1..MaxTabs] : L \in {{}} \cup UNION {LeafSets(0, k) : k \in 1..MaxLeaves}}

RECURSIVE SumOver(_, _)
SumOver(f, S) ==
    IF S = {} THEN 0
    ELSE LET x == CHOOSE y \in S : TRUE IN f[x] + SumOver(f, S \ {x})

TabCount(d) == SumOver([s \in DOMAIN d |-> SumOver(d[s], DOMAIN d[s])], DOMAIN d)

Docks == {d \in [SurfaceIds -> Layouts] : TabCount(d) <= MaxTabs}

\* the elements of a finite set of numbers in ascending order
RECURSIVE Ascending(_)
Ascending(S) ==
    IF S = {} THEN <<>>
    ELSE LET m == CHOOSE x \in S : \A y \in S : x <= y
         IN  <<m>> \o Ascending(S \ {m})

RECURSIVE Flatten(_)
Flatten(ss) == IF ss = <<>> THEN <<>> ELSE Head(ss) \o Flatten(Tail(ss))

\* DockState::iter_all_tabs with DockState::find_tab on each tab
Locations(d) ==
    LET leaf(s, n) == [t \in 1..d[s][n] |-> <<s, n, t - 1>>]
        surface(s) == LET ns == Ascending(DOMAIN d[s])
                      IN  Flatten([i \in 1..Len(ns) |-> leaf(s, ns[i])])
        ss == Ascending(DOMAIN d)
    IN  Flatten([i \in 1..Len(ss) |-> surface(ss[i])])

Hierarchies == {Locations(d) : d \in Docks}

\* the leaves (surface, node) of a hierarchy
Leaves(h) == {<<h[i][1], h[i][2]>> : i \in 1..Len(h)}

\* DockState::push_to_focused_leaf after set_focused_node_and_surface: the
\* new tab goes behind the last tab of leaf (s, n)
PushTab(h, s, n) ==
    LET k == Cardinality({i \in 1..Len(h) : h[i][1] = s /\ h[i][2] = n})
        last == CHOOSE i \in 1..Len(h) :
                    h[i][1] = s /\ h[i][2] = n /\ h[i][3] = k - 1
    IN  SubSeq(h, 1, last) \o <<<<s, n, k>>>> \o SubSeq(h, last + 1, Len(h))

\* impl From<&DockState<Tab>> for Records
RecordsFrom(h) == [i \in 1..Len(h) |-> Record(h[i][1], h[i][2], h[i][3])]

\* ------------------------------------------------------------------- state
VARIABLES
    tree,         \* TabState.tree: the live dock hierarchy
    ts,           \* TabState: records, surfaces, nodes, tabs, surface_index,
                  \* node_index, tab_index, surface, node, tab; focus: the
                  \* focus requests the current call handed to the dock;
                  \* panic: the call panicked
    op,           \* the last operation called on the TabState
    ret,          \* what it returned (TabState::ui: whether a tab was added)
    command,      \* App.command: the mode set (ChoiceMap)
    command_key,  \* App.command_key: the active mode
    key,          \* the last key press dispatched: the mode it was looked
                  \* up in, its chord, the entry found, the acts handed on
    prev,         \* the key press dispatched before it
    text,         \* the chord string last handed to the parser
    parsed,       \* the parser function applied to it, and what it returned
    toml,         \* the configuration table handed to the mode set's builders
    built,        \* the builder last applied to it, and what it returned
    focus,        \* Lens.focus_tree: windows, nodes, leaves, select,
                  \* node_index, window_index; panic: a call panicked
    fop,          \* the last operation on the focus tree
    tab_names,    \* TabState.tab_names
    issued        \* the tab names handed out so far, oldest first

vars == <<tree, ts, op, ret, command, command_key, key, prev, text, parsed,
          toml, built, focus, fop, tab_names, issued>>

dock_vars == <<tree, ts, op, ret>>

dispatch_vars == <<command, command_key, key, prev>>

parse_vars == <<text, parsed>>

config_vars == <<toml, built>>

focus_vars == <<focus, fop>>

name_vars == <<tab_names, issued>>

\* a call's result: the TabState after it and the returned value
Result(s, r) == [ts |-> s, ret |-> r]

\* the call panicked: nothing runs after it
Panic(s) == [ts |-> [s EXCEPT !.panic = TRUE], ret |-> FALSE]

\* ------------------------------------------------------ increment/decrement
\* variant: increment_surface without its is_empty early return
increment_surface_unguarded(s) ==
    LET n == Len(s.surfaces) IN
    IF n > s.surface + 1 THEN Result([s EXCEPT !.surface = @ + 1], TRUE)
    ELSE IF n = 1 THEN Result(s, FALSE)
    ELSE Result([s EXCEPT !.surface = 0], TRUE)

increment_surface(s) ==
    IF s.surfaces = <<>> THEN Result(s, FALSE)
    ELSE LET n == Len(s.surfaces) IN
         IF n > s.surface + 1 THEN Result([s EXCEPT !.surface = @ + 1], TRUE)
         ELSE IF n = 1 THEN Result(s, FALSE)
         ELSE Result([s EXCEPT !.surface = 0], TRUE)

decrement_surface(s) ==
    IF s.surfaces = <<>> THEN Result(s, FALSE)
    ELSE LET n == Len(s.surfaces) IN
         IF n = 1 /\ s.surface = 0 THEN Result(s, FALSE)
         ELSE IF s.surface = 0 THEN Result([s EXCEPT !.surface = n - 1], TRUE)
         ELSE Result([s EXCEPT !.surface = @ - 1], TRUE)

increment_node(s) ==
    IF ~IsSome(s.surface_index) THEN Result(s, FALSE)
    ELSE LET ids == node_ids(s.records, Unwrap(s.surface_index))
             pos == Position(ids, s.node)
             node_len == Len(ids)
         IN  IF ids = <<>> THEN Result(s, FALSE)
             ELSE IF IsSome(pos) THEN
                 LET current == Unwrap(pos) IN
                 IF node_len > current + 1
                 THEN Result([s EXCEPT !.node = At(ids, current + 1)], TRUE)
                 ELSE IF node_len = 1 THEN Result(s, FALSE)
                 ELSE Result([s EXCEPT !.node = At(ids, 0)], TRUE)
             ELSE Result([s EXCEPT !.node = At(ids, 0)], TRUE)

\* The wrap branch tests node_len == 0 (tab.rs:615), which is never true
\* here, so a cursor on the first position reaches node_ids[current - 1].
decrement_node(s) ==
    IF ~IsSome(s.surface_index) THEN Result(s, FALSE)
    ELSE LET ids == node_ids(s.records, Unwrap(s.surface_index))
             pos == Position(ids, s.node)
             node_len == Len(ids)
         IN  IF ids = <<>> THEN Result(s, FALSE)
             ELSE IF IsSome(pos) THEN
                 LET current == Unwrap(pos) IN
                 IF node_len = 1 THEN Result(s, FALSE)
                 ELSE IF node_len = 0 THEN
                     IF InBounds(ids, node_len - 1)
                     THEN Result([s EXCEPT !.node = At(ids, node_len - 1)], TRUE)
                     ELSE Panic(s)
                 ELSE IF InBounds(ids, current - 1)
                      THEN Result([s EXCEPT !.node = At(ids, current - 1)], TRUE)
                      ELSE Panic(s)
             ELSE Result([s EXCEPT !.node = At(ids, 0)], TRUE)

\* variant: increment_tab that stops at the last position instead of wrapping
increment_tab_no_wrap(s) ==
    IF ~IsSome(s.node_index) THEN Result(s, FALSE)
    ELSE LET ids == tab_ids(s.records, Unwrap(s.node_index))
             pos == Position(ids, s.tab)
             tab_len == Len(ids)
         IN  IF ids = <<>> THEN Result(s, FALSE)
             ELSE IF IsSome(pos) THEN
                 LET current == Unwrap(pos) IN
                 IF tab_len > current + 1
                 THEN Result([s EXCEPT !.tab = At(ids, current + 1)], TRUE)
                 ELSE Result(s, FALSE)
             ELSE Result([s EXCEPT !.tab = At(ids, 0)], TRUE)

increment_tab(s) ==
    IF ~IsSome(s.node_index) THEN Result(s, FALSE)
    ELSE LET ids == tab_ids(s.records, Unwrap(s.node_index))
             pos == Position(ids, s.tab)
             tab_len == Len(ids)
         IN  IF ids = <<>> THEN Result(s, FALSE)
             ELSE IF IsSome(pos) THEN
                 LET current == Unwrap(pos) IN
                 IF tab_len > current + 1
                 THEN Result([s EXCEPT !.tab = At(ids, current + 1)], TRUE)
                 ELSE IF tab_len = 1 THEN Result(s, FALSE)
                 ELSE Result([s EXCEPT !.tab = At(ids, 0)], TRUE)
             ELSE Result([s EXCEPT !.tab = At(ids, 0)], TRUE)

decrement_tab(s) ==
    IF ~IsSome(s.node_index) THEN Result(s, FALSE)
    ELSE LET ids == tab_ids(s.records, Unwrap(s.node_index))
             pos == Position(ids, s.tab)
             tab_len == Len(ids)
         IN  IF ids = <<>> THEN Result(s, FALSE)
             ELSE IF IsSome(pos) THEN
                 LET current == Unwrap(pos) IN
                 IF tab_len = 1 THEN Result(s, FALSE)
                 ELSE IF current = 0
                 THEN Result([s EXCEPT !.tab = At(ids, tab_len - 1)], TRUE)
                 ELSE Result([s EXCEPT !.tab = At(ids, current - 1)], TRUE)
             ELSE Result([s EXCEPT !.tab = At(ids, 0)], TRUE)

\* ------------------------------------------------------------ update_active
update_active_surface(s) ==
    IF s.surfaces = <<>> \/ Len(s.surfaces) <= s.surface THEN Result(s, FALSE)
    ELSE Result([s EXCEPT !.surface_index = Some(At(s.surfaces, s.surface))], TRUE)

select_node(s) ==
    IF IsSome(s.surface_index) /\ IsSome(s.node_index)
    THEN [s EXCEPT !.focus = Append(@, <<"node", Unwrap(s.surface_index),
                                         Unwrap(s.node_index)>>)]
    ELSE s

\* variant: select_current_tab that focuses the node before it looks at
\* tab_index
select_current_tab_node_first(s) ==
    IF IsSome(s.surface_index) /\ IsSome(s.node_index) /\ IsSome(s.tab_index)
    THEN [select_node(s) EXCEPT !.focus = Append(@, <<"tab", Unwrap(s.surface_index),
                                   Unwrap(s.node_index), Unwrap(s.tab_index)>>)]
    ELSE select_node(s)

select_current_tab(s) ==
    IF IsSome(s.surface_index) /\ IsSome(s.node_index) /\ IsSome(s.tab_index)
    THEN [select_node(s) EXCEPT !.focus = Append(@, <<"tab", Unwrap(s.surface_index),
                                   Unwrap(s.node_index), Unwrap(s.tab_index)>>)]
    ELSE s

\* variant: the repair of update_active_node takes the first node of the
\* whole snapshot instead of the first node of the active surface
update_active_node_unfiltered(s) ==
    IF ~IsSome(s.surface_index) THEN Result(s, FALSE)
    ELSE LET ids == node_ids(s.records, Unwrap(s.surface_index)) IN
         IF ids = <<>> THEN Result(s, FALSE)
         ELSE IF s.node \in Range(ids) THEN
             IF InBounds(s.nodes, s.node)
             THEN Result([s EXCEPT !.node_index = Some(At(s.nodes, s.node))], TRUE)
             ELSE Panic(s)
         ELSE IF InBounds(s.nodes, 0)
              THEN Result([s EXCEPT !.node_index = Some(At(s.nodes, 0))], TRUE)
              ELSE Panic(s)

\* variant: update_active_node that fails on a stale cursor instead of
\* repairing it
update_active_node_no_repair(s) ==
    IF ~IsSome(s.surface_index) THEN Result(s, FALSE)
    ELSE LET ids == node_ids(s.records, Unwrap(s.surface_index)) IN
         IF ids = <<>> THEN Result(s, FALSE)
         ELSE IF s.node \in Range(ids) THEN
             IF InBounds(s.nodes, s.node)
             THEN Result([s EXCEPT !.node_index = Some(At(s.nodes, s.node))], TRUE)
             ELSE Panic(s)
         ELSE Result(s, FALSE)

update_active_node(s) ==
    IF ~IsSome(s.surface_index) THEN Result(s, FALSE)
    ELSE LET ids == node_ids(s.records, Unwrap(s.surface_index)) IN
         IF ids = <<>> THEN Result(s, FALSE)
         ELSE IF s.node \in Range(ids) THEN
             IF InBounds(s.nodes, s.node)
             THEN Result([s EXCEPT !.node_index = Some(At(s.nodes, s.node))], TRUE)
             ELSE Panic(s)
         ELSE IF InBounds(s.nodes, At(ids, 0))
              THEN Result([s EXCEPT !.node_index = Some(At(s.nodes, At(ids, 0)))], TRUE)
              ELSE Panic(s)

update_active_tab(s) ==
    IF ~IsSome(s.node_index) THEN Result(s, FALSE)
    ELSE LET ids == tab_ids(s.records, Unwrap(s.node_index)) IN
         IF ids = <<>> THEN Result(s, FALSE)
         ELSE IF s.tab \in Range(ids) THEN
             IF InBounds(s.tabs, s.tab)
             THEN Result(select_current_tab(
                      [s EXCEPT !.tab_index = Some(At(s.tabs, s.tab))]), TRUE)
             ELSE Panic(s)
         ELSE IF InBounds(s.tabs, At(ids, 0))
              THEN Result(select_current_tab(
                       [s EXCEPT !.tab_index = Some(At(s.tabs, At(ids, 0)))]), TRUE)
              ELSE Panic(s)

update_records(s, t) ==
    LET r == RecordsFrom(t)
    IN  [s EXCEPT !.records = r, !.surfaces = surfaces(r),
                  !.nodes = nodes(r), !.tabs = tabs(r)]

\* ------------------------------------------------------- next_* / previous_*
\* A panicked call returns FALSE with ts.panic set, so the steps that follow
\* it in the code are skipped; the cascades (`let _ = ...`) keep the
\* TabState of the cascaded call and ignore its result.
Cascade(a) == Result(a.ts, TRUE)

\* variant: a surface call that goes on with update_active_surface and the
\* cascades although the cursor did not move
SurfaceMoved_unconditional(a) ==
    LET b == update_active_surface(a.ts) IN
    IF ~b.ret THEN Result(b.ts, FALSE)
    ELSE LET c == update_active_node(b.ts) IN
         IF c.ret THEN Cascade(update_active_tab(c.ts)) ELSE Cascade(c)

SurfaceMoved(a) ==
    IF ~a.ret THEN Result(a.ts, FALSE)
    ELSE LET b == update_active_surface(a.ts) IN
         IF ~b.ret THEN Result(b.ts, FALSE)
         ELSE LET c == update_active_node(b.ts) IN
              IF c.ret THEN Cascade(update_active_tab(c.ts)) ELSE Cascade(c)

NodeMoved(a) ==
    IF ~a.ret THEN Result(a.ts, FALSE)
    ELSE LET b == update_active_node(a.ts) IN
         IF ~b.ret THEN Result(b.ts, FALSE)
         ELSE Cascade(update_active_tab(b.ts))

\* variant: a tab call that updates the active node before the active tab
TabMoved_from_node(a) ==
    IF ~a.ret THEN Result(a.ts, FALSE)
    ELSE update_active_tab(update_active_node(a.ts).ts)

TabMoved(a) == IF ~a.ret THEN Result(a.ts, FALSE) ELSE update_active_tab(a.ts)

next_surface(s, t) == SurfaceMoved(increment_surface(update_records(s, t)))

previous_surface(s, t) == SurfaceMoved(decrement_surface(update_records(s, t)))

next_node(s, t) == NodeMoved(increment_node(update_records(s, t)))

previous_node(s, t) == NodeMoved(decrement_node(update_records(s, t)))

next_tab(s, t) == TabMoved(increment_tab(update_records(s, t)))

previous_tab(s, t) == TabMoved(decrement_tab(update_records(s, t)))

\* --------------------------------------------------------------- TabState
\* TabState::new: DockState::new(vec![paeva]) holds one tab, at (0, 0, 0)
NewTabState ==
    LET t == <<<<0, 0, 0>>>>
        r == RecordsFrom(t)
    IN  [records |-> r, surfaces |-> surfaces(r), nodes |-> nodes(r), tabs |-> tabs(r),
         surface_index |-> IF r # <<>> THEN Some(r[1].surface_index) ELSE None,
         node_index |-> IF r # <<>> THEN Some(r[1].node_index) ELSE None,
         tab_index |-> IF r # <<>> THEN Some(r[1].tab_index) ELSE None,
         surface |-> IF r # <<>> THEN r[1].surface_index ELSE 0,
         node |-> IF r # <<>> THEN r[1].node_index ELSE 0,
         tab |-> IF r # <<>> THEN r[1].tab_index ELSE 0,
         focus |-> <<>>, panic |-> FALSE]

Dock == {"CurrentTab", "NextTab", "PreviousTab", "NextNode", "PreviousNode",
         "NextSurface", "PreviousSurface", "InspectRecords", "Be"}

\* the TabState as a call finds it: no focus request issued yet
Entry == [ts EXCEPT !.focus = <<>>]

\* TabState::act. InspectRecords and Be only log: they are no call on the
\* cursor engine, and op, ret and ts.focus keep describing the last one.
ActResult(a) ==
    CASE a = "CurrentTab" -> Result(select_current_tab(Entry), FALSE)
      [] a = "NextTab" -> next_tab(Entry, tree)
      [] a = "PreviousTab" -> previous_tab(Entry, tree)
      [] a = "NextNode" -> next_node(Entry, tree)
      [] a = "PreviousNode" -> previous_node(Entry, tree)
      [] a = "NextSurface" -> next_surface(Entry, tree)
      [] a = "PreviousSurface" -> previous_surface(Entry, tree)

act(a) ==
    /\ ~ts.panic
    /\ IF a \in {"InspectRecords", "Be"}
       THEN UNCHANGED <<ts, op, ret>>
       ELSE /\ LET r == ActResult(a) IN
               /\ ts' = r.ts
               /\ ret' = (r.ret /\ ~r.ts.panic)
            /\ op' = a
    /\ UNCHANGED <<tree, dispatch_vars, parse_vars, config_vars, focus_vars, name_vars>>

\* TabState::ui: the draw pass. The user may restructure the dock by drag
\* and drop or by closing tabs (DockArea::show_inside), and may ask for a
\* new tab with the add button of a leaf; the Snapshot is refreshed only
\* when a tab was added (`update`, kept in ret). The draw passes between two
\* calls are one step. The names new_names draws for the new tabs are not
\* given to them (the tab pushed is Players::paeva()); new_name models them.
\* variant: a draw pass that pushes the new tab and keeps the old Snapshot
ui_no_refresh ==
    /\ ~ts.panic
    /\ op # "ui"
    /\ \E h \in Hierarchies :
          \/ /\ tree' = h
             /\ ts' = Entry
             /\ ret' = FALSE
          \/ /\ Len(h) < MaxTabs
             /\ \E l \in Leaves(h) : tree' = PushTab(h, l[1], l[2])
             /\ ts' = Entry
             /\ ret' = TRUE
    /\ op' = "ui"
    /\ UNCHANGED <<dispatch_vars, parse_vars, config_vars, focus_vars, name_vars>>

ui ==
    /\ ~ts.panic
    /\ op # "ui"
    /\ \E h \in Hierarchies :
          \/ /\ tree' = h
             /\ ts' = Entry
             /\ ret' = FALSE
          \/ /\ Len(h) < MaxTabs
             /\ \E l \in Leaves(h) :
                   /\ tree' = PushTab(h, l[1], l[2])
                   /\ ts' = update_records(Entry, tree')
             /\ ret' = TRUE
    /\ op' = "ui"
    /\ UNCHANGED <<dispatch_vars, parse_vars, config_vars, focus_vars, name_vars>>

\* ------------------------------------------------------------ binding table
NoMods == [shift_key |-> FALSE, control_key |-> FALSE, alt_key |-> FALSE,
           super_key |-> FALSE]

\* Command::with_modifier
Command(k, mods) == [key |-> k, mods |-> mods]

\* the chords the keyboard sends, and those the configuration binds
Chords == {Command(k, NoMods) : k \in {"w", "n", "x"}}

ConfigChords == {Command(k, NoMods) : k \in {"w", "n"}}

\* the acts the configuration names
Acts == {[kind |-> "App", act |-> "Minimize"], [kind |-> "Egui", act |-> "Next"]}

\* the group tables of the configuration, in the order Table::keys gives
GroupIds == <<"dock", "window">>

ModeNames == {"normal"} \cup Range(GroupIds)

\* CommandOptions::Acts and CommandOptions::Commands (name, help and row_id
\* of the CommandGroup are display data)
ActsOption(a) == [kind |-> "Acts", acts |-> a]

CommandsOption(id, binding) == [kind |-> "Commands", id |-> id, binding |-> binding]

\* Choices::try_from_toml on a table of act -> chord: the bindings of the
\* table, or None when it is left without any
try_from_toml(table) == IF DOMAIN table = {} THEN None ELSE Some(table)

\* ChoiceMap::from_toml: the modes whose table holds a binding
from_toml(groups) ==
    LET kept == {m \in DOMAIN groups : IsSome(try_from_toml(groups[m]))}
    IN  [m \in kept |-> Unwrap(try_from_toml(groups[m]))]

\* ChoiceMap::command_group: every group of `commands` that is a registered
\* mode and has a binding is stored under its binding in mode "normal"
RECURSIVE command_group(_, _, _)
command_group(cm, commands, queue) ==
    IF queue = <<>> THEN cm
    ELSE LET id == Head(queue)
             next ==
                 IF id \in DOMAIN cm /\ IsSome(commands[id]) /\ "normal" \in DOMAIN cm
                 THEN LET binding == Unwrap(commands[id])
                          normal == [c \in DOMAIN cm["normal"] \cup {binding} |->
                                        IF c = binding THEN CommandsOption(id, binding)
                                        ELSE cm["normal"][c]]
                      IN  [cm EXCEPT !["normal"] = normal]
                 ELSE cm
         IN  command_group(next, commands, Tail(queue))

\* ChoiceMap::with_config on a configuration [groups, commands]
with_config(config) == command_group(from_toml(config.groups), config.commands, GroupIds)

\* the tables a configuration can give a mode: some chords, each with an act
Tables == UNION {[D -> {ActsOption(<<a>>) : a \in Acts}] : D \in SUBSET ConfigChords}

Configs ==
    [groups : [ModeNames -> Tables],
     commands : [Range(GroupIds) -> {None} \cup {Some(c) : c \in ConfigChords}]]

\* a configuration with one group: w enters "window", where n is bound
ExampleConfig ==
    LET w == Command("w", NoMods)
        n == Command("n", NoMods)
    IN  [groups |-> [m \in ModeNames |->
                        IF m = "normal" THEN (n :> ActsOption(<<[kind |-> "App", act |-> "Minimize"]>>))
                        ELSE IF m = "window" THEN (n :> ActsOption(<<[kind |-> "Egui", act |-> "Next"]>>))
                        ELSE <<>>],
         commands |-> [g \in Range(GroupIds) |-> IF g = "window" THEN Some(w) ELSE None]]

\* run: the WindowEvent::KeyboardInput arm, for a pressed key with chord c
\* variant: a dispatcher that finds the group reference but does not switch
\* the active mode to the group
KeyboardInput_group_ignored(c) ==
    /\ IF command_key \in DOMAIN command /\ c \in DOMAIN command[command_key]
       THEN LET opts == command[command_key][c] IN
            IF opts.kind = "Commands"
            THEN /\ command_key' = command_key
                 /\ key' = Some([mode |-> command_key, chord |-> c,
                                 found |-> Some(opts), acts |-> <<>>])
            ELSE /\ command_key' = "normal"
                 /\ key' = Some([mode |-> command_key, chord |-> c,
                                 found |-> Some(opts), acts |-> opts.acts])
       ELSE /\ command_key' = command_key
            /\ key' = Some([mode |-> command_key, chord |-> c,
                            found |-> None, acts |-> <<>>])
    /\ prev' = key
    /\ UNCHANGED <<command, dock_vars, parse_vars, config_vars, focus_vars, name_vars>>

\* variant: a dispatcher that, on a miss in the active mode, falls back on
\* the bindings of mode "normal"
KeyboardInput_normal_fallback(c) ==
    /\ IF command_key \in DOMAIN command /\ c \in DOMAIN command[command_key]
       THEN LET opts == command[command_key][c] IN
            IF opts.kind = "Commands"
            THEN /\ command_key' = opts.id
                 /\ key' = Some([mode |-> command_key, chord |-> c,
                                 found |-> Some(opts), acts |-> <<>>])
            ELSE /\ command_key' = "normal"
                 /\ key' = Some([mode |-> command_key, chord |-> c,
                                 found |-> Some(opts), acts |-> opts.acts])
       ELSE IF "normal" \in DOMAIN command /\ c \in DOMAIN command["normal"]
               /\ command["normal"][c].kind = "Acts"
       THEN /\ command_key' = "normal"
            /\ key' = Some([mode |-> command_key, chord |-> c,
                            found |-> None, acts |-> command["normal"][c].acts])
       ELSE /\ command_key' = command_key
            /\ key' = Some([mode |-> command_key, chord |-> c,
                            found |-> None, acts |-> <<>>])
    /\ prev' = key
    /\ UNCHANGED <<command, dock_vars, parse_vars, config_vars, focus_vars, name_vars>>

KeyboardInput(c) ==
    /\ IF command_key \in DOMAIN command /\ c \in DOMAIN command[command_key]
       THEN LET opts == command[command_key][c] IN
            IF opts.kind = "Commands"
            THEN /\ command_key' = opts.id
                 /\ key' = Some([mode |-> command_key, chord |-> c,
                                 found |-> Some(opts), acts |-> <<>>])
            ELSE /\ command_key' = "normal"
                 /\ key' = Some([mode |-> command_key, chord |-> c,
                                 found |-> Some(opts), acts |-> opts.acts])
       ELSE /\ command_key' = command_key
            /\ key' = Some([mode |-> command_key, chord |-> c,
                            found |-> None, acts |-> <<>>])
    /\ prev' = key
    /\ UNCHANGED <<command, dock_vars, parse_vars, config_vars, focus_vars, name_vars>>

\* ------------------------------------------------------------ chord parser
\* A &str is the sequence of its characters.
LowerCase == <<"a", "b", "c", "d", "e", "f", "g", "h", "i", "j", "k", "l", "m",
               "n", "o", "p", "q", "r", "s", "t", "u", "v", "w", "x", "y", "z">>

UpperCase == <<"A", "B", "C", "D", "E", "F", "G", "H", "I", "J", "K", "L", "M",
               "N", "O", "P", "Q", "R", "S", "T", "U", "V", "W", "X", "Y", "Z">>

Digits == {"0", "1", "2", "3", "4", "5", "6", "7", "8", "9"}

\* nom's alphanumeric1 takes ASCII letters and digits
Alphanumeric == Range(LowerCase) \cup Range(UpperCase) \cup Digits

\* nom's space0 takes spaces and tabs
Spaces == {" ", "\t"}

\* char::to_uppercase on one character, str::to_uppercase on a string
UpperChar(c) ==
    IF c \in Range(LowerCase)
    THEN UpperCase[CHOOSE i \in 1..Len(LowerCase) : LowerCase[i] = c]
    ELSE c

to_uppercase(str) == [i \in 1..Len(str) |-> UpperChar(str[i])]

\* IResult: Ok((rem, val)) or Err
Ok(rem, val) == [ok |-> TRUE, rem |-> rem, val |-> val]

Err == [ok |-> FALSE]

\* the input behind its longest prefix of characters of set
RECURSIVE SkipIn(_, _)
SkipIn(i, set) ==
    IF i # <<>> /\ Head(i) \in set THEN SkipIn(Tail(i), set) ELSE i

Taken(i, rem) == SubSeq(i, 1, Len(i) - Len(rem))

space0(i) == Ok(SkipIn(i, Spaces), Taken(i, SkipIn(i, Spaces)))

alphanumeric1(i) ==
    LET rem == SkipIn(i, Alphanumeric)
    IN  IF rem = i THEN Err ELSE Ok(rem, Taken(i, rem))

tag(t, i) == IF i # <<>> /\ Head(i) = t THEN Ok(Tail(i), t) ELSE Err

\* ModifiersState: the set of the flags that are set
CONTROL == {"control_key"}

ALT == {"alt_key"}

SHIFT == {"shift_key"}

SUPER == {"super_key"}

\* impl From<&ModifiersState> / From<&Option<ModifiersState>> for Modifiers
ModifiersFrom(m) ==
    LET flags == IF IsSome(m) THEN Unwrap(m) ELSE {}
    IN  [shift_key |-> "shift_key" \in flags, control_key |-> "control_key" \in flags,
         alt_key |-> "alt_key" \in flags, super_key |-> "super_key" \in flags]

\* Modifiers::and
\* variant: Modifiers::and that takes the other flags instead of adding them
and_overwrite(self, other) == other

and(self, other) ==
    [shift_key |-> self.shift_key \/ other.shift_key,
     control_key |-> self.control_key \/ other.control_key,
     alt_key |-> self.alt_key \/ other.alt_key,
     super_key |-> self.super_key \/ other.super_key]

\* Modifiers::is_none, as written: the conjunction of the four flags
is_none(m) == m.shift_key /\ m.control_key /\ m.alt_key /\ m.super_key

into_mods(word) ==
    CASE word = <<"c", "r">> -> Some(CONTROL)
      [] word = <<"c", "o", "n", "t", "r", "o", "l">> -> Some(CONTROL)
      [] word = <<"a", "l", "t">> -> Some(ALT)
      [] word = <<"s", "h", "i", "f", "t">> -> Some(SHIFT)
      [] word = <<"s", "u", "p", "e", "r">> -> Some(SUPER)
      [] OTHER -> None

\* Each step of a parser function is an operator of the value the step
\* before it returned.
separator_plus(rem) ==
    Ok(space0(IF tag("+", rem).ok THEN tag("+", rem).rem ELSE rem).rem, tag("+", rem).ok)

separator(i) == separator_plus(space0(i).rem)

\* nom's delimited(tag("<"), alphanumeric1, tag(">"))
delimited_close(bracketed) ==
    IF bracketed.ok /\ tag(">", bracketed.rem).ok
    THEN Ok(tag(">", bracketed.rem).rem, bracketed.val)
    ELSE Err

delimited_open(open) == IF open.ok THEN delimited_close(alphanumeric1(open.rem)) ELSE Err

delimited(i) == delimited_open(tag("<", i))

\* variant: parse_mod that fails on a bracket into_mods does not know
parse_mod_known_only(i) ==
    LET bracketed == delimited(separator(i).rem)
    IN  IF bracketed.ok /\ IsSome(into_mods(bracketed.val))
        THEN Ok(separator(bracketed.rem).rem, into_mods(bracketed.val))
        ELSE Err

parse_mod_bracketed(bracketed) ==
    IF bracketed.ok
    THEN Ok(separator(bracketed.rem).rem, into_mods(bracketed.val))
    ELSE Err

parse_mod(i) == parse_mod_bracketed(delimited(separator(i).rem))

is_modifier_input(input) == Ok(input, parse_mod(input).ok)

is_modifier(i) == is_modifier_input(separator(i).rem)

\* variant: a loop that starts over with no flags at a token into_mods
\* does not know
RECURSIVE parse_mods_loop_reset(_, _)
parse_mods_loop_reset(r, modifiers) ==
    IF ~r.ok THEN Err
    ELSE LET acc == IF IsSome(r.val) THEN and(modifiers, ModifiersFrom(r.val)) ELSE NoMods
         IN  IF is_modifier(r.rem).val
             THEN parse_mods_loop_reset(parse_mod(r.rem), acc)
             ELSE Ok(r.rem, acc)

\* the while loop of parse_mods, entered with `more` true: r is what
\* parse_mod returned for the input left
RECURSIVE parse_mods_loop(_, _)
parse_mods_loop(r, modifiers) ==
    IF ~r.ok THEN Err
    ELSE IF is_modifier(r.rem).val
         THEN parse_mods_loop(parse_mod(r.rem), and(modifiers, ModifiersFrom(r.val)))
         ELSE Ok(r.rem, and(modifiers, ModifiersFrom(r.val)))

parse_mods(i) ==
    IF is_modifier(i).val THEN parse_mods_loop(parse_mod(i), NoMods) ELSE Ok(i, NoMods)

\* variant: word that accepts an empty base token
word_or_nothing(i) ==
    LET start == space0(i).rem
    IN  Ok(SkipIn(start, Alphanumeric), Taken(start, SkipIn(start, Alphanumeric)))

word(i) == alphanumeric1(space0(i).rem)

parse_str_key(mods, k) ==
    IF k.ok THEN Ok(k.rem, Some(Command(k.val, mods.val))) ELSE Err

parse_str_mods(mods) == IF mods.ok THEN parse_str_key(mods, word(mods.rem)) ELSE Err

parse_str(i) == parse_str_mods(parse_mods(i))

\* variant: parse_cmd that leaves the shift flag as parsed
parse_cmd_as_parsed(i) ==
    LET r == parse_str(i) IN
    IF r.ok /\ IsSome(r.val) THEN Ok(<<>>, Unwrap(r.val)) ELSE Err

parse_cmd_shift(cmd) ==
    IF cmd.key = to_uppercase(cmd.key)
    THEN Ok(<<>>, [cmd EXCEPT !.mods.shift_key = TRUE])
    ELSE Ok(<<>>, cmd)

parse_cmd_opt(r) ==
    IF ~r.ok THEN Err
    ELSE IF IsSome(r.val) THEN parse_cmd_shift(Unwrap(r.val)) ELSE Err

\* Polite<Command>: rem is dropped
parse_cmd(i) == parse_cmd_opt(parse_str(i))

\* impl Display for Modifiers; the glyph between the brackets of the super
\* key is three non-ASCII characters in the source
ModifiersDisplay(m) ==
    (IF m.super_key THEN <<"<", "U+00E2", "U+0152", "U+02DC", ">", " ", "+", " ">> ELSE <<>>)
    \o (IF m.control_key THEN <<"<", "C", "r", ">", " ", "+", " ">> ELSE <<>>)
    \o (IF m.alt_key THEN <<"<", "A", "l", "t", ">", " ", "+", " ">> ELSE <<>>)
    \o (IF m.shift_key THEN <<"<", "S", "h", ">", " ", "+", " ">> ELSE <<>>)

\* impl Display for Command
CommandDisplay(cmd) ==
    IF ~is_none(cmd.mods) THEN ModifiersDisplay(cmd.mods) \o cmd.key ELSE cmd.key

\* the chord strings handed to the parser
MaxTokenLen == 2

MaxMods == 2

TokenAlphabet == {"c", "r", "S", "h", "1"}

KnownTokens == {<<"c", "r">>, <<"c", "o", "n", "t", "r", "o", "l">>, <<"a", "l", "t">>,
                <<"s", "h", "i", "f", "t">>, <<"s", "u", "p", "e", "r">>}

ShortTokens == UNION {[1..n -> TokenAlphabet] : n \in 1..MaxTokenLen}

UnknownTokens == (ShortTokens \cup {<<"o", "t", "h", "e", "r">>}) \ KnownTokens

ModTokens == KnownTokens \cup {<<"o", "t", "h", "e", "r">>}

ModSeqs == UNION {[1..n -> ModTokens] : n \in 0..MaxMods}

BaseKeys == {<<"k">>, <<"K">>, <<"4">>, <<"g", "G">>}

SingleLetters == {<<LowerCase[i]>> : i \in 1..Len(LowerCase)}
                     \cup {<<UpperCase[i]>> : i \in 1..Len(UpperCase)}

Separators == {<<" ", "+", " ">>, <<>>}

Bracket(T) == <<"<">> \o T \o <<">">>

\* the bracketed tokens of ms, each followed by sep
RECURSIVE Prefix(_, _)
Prefix(ms, sep) ==
    IF ms = <<>> THEN <<>> ELSE Bracket(Head(ms)) \o sep \o Prefix(Tail(ms), sep)

\* the bracketed tokens of ms with sep between them
RECURSIVE Joined(_, _)
Joined(ms, sep) ==
    IF ms = <<>> THEN <<>>
    ELSE IF Len(ms) = 1 THEN Bracket(Head(ms))
    ELSE Bracket(Head(ms)) \o sep \o Joined(Tail(ms), sep)

AllModifiers == [shift_key : BOOLEAN, control_key : BOOLEAN,
                 alt_key : BOOLEAN, super_key : BOOLEAN]

GeneratedChords == {Command(k, m) : k \in BaseKeys, m \in AllModifiers}

NoBaseInputs ==
    {Prefix(ms, sep) \o tail : ms \in ModSeqs, sep \in Separators, tail \in {<<>>, <<" ">>}}
    \cup {Joined(ms, sep) \o tail : ms \in ModSeqs, sep \in Separators, tail \in {<<>>, <<" ">>}}

Inputs ==
    SingleLetters
    \cup NoBaseInputs
    \cup {Prefix(ms, sep) \o k : ms \in ModSeqs, sep \in Separators, k \in BaseKeys}
    \cup {Bracket(T) \o <<" ", "+", " ">> \o k : T \in ShortTokens, k \in BaseKeys}
    \cup {CommandDisplay(c) : c \in GeneratedChords}

ParseMod ==
    /\ parsed' = [fn |-> "parse_mod", out |-> parse_mod(text)]
    /\ UNCHANGED <<dock_vars, dispatch_vars, text, config_vars, focus_vars, name_vars>>

ParseStr ==
    /\ parsed' = [fn |-> "parse_str", out |-> parse_str(text)]
    /\ UNCHANGED <<dock_vars, dispatch_vars, text, config_vars, focus_vars, name_vars>>

ParseCmd ==
    /\ parsed' = [fn |-> "parse_cmd", out |-> parse_cmd(text)]
    /\ UNCHANGED <<dock_vars, dispatch_vars, text, config_vars, focus_vars, name_vars>>

\* ------------------------------------------------------ mode set building
\* impl FromStr for AppAct, EguiAct, NamedAct and Dock: the identifiers that
\* name a variant
AppActNames == {"help", "menu", "decorations", "fullscreen", "maximize",
                "minimize", "active_tab", "be"}

EguiActNames == {"right", "left", "up", "down", "next", "previous", "next_window",
                 "previous_window", "next_row", "previous_row", "focused_leaf", "be"}

NamedActNames == {"enter", "escape", "arrow_left", "arrow_right", "arrow_up",
                  "arrow_down", "be"}

DockNames == {"select_current", "next_tab", "previous_tab", "next_node",
              "previous_node", "next_surface", "previous_surface",
              "inspect_records", "be"}

\* impl FromStr for Act: the first enum that knows the identifier
from_str(s) ==
    IF s \in AppActNames THEN Some([kind |-> "App", act |-> s])
    ELSE IF s \in EguiActNames THEN Some([kind |-> "Egui", act |-> s])
    ELSE IF s \in NamedActNames THEN Some([kind |-> "Named", act |-> s])
    ELSE IF s \in DockNames THEN Some([kind |-> "Dock", act |-> s])
    ELSE None

\* HashMap::insert
Insert(map, k, v) == [x \in DOMAIN map \cup {k} |-> IF x = k THEN v ELSE map[x]]

\* Choices::from_toml on a table of identifier = "chord" entries, in the
\* order Table::keys gives: a chord that does not parse ends the call with
\* its error, an identifier that names no act is passed over
RECURSIVE Choices_from_toml_loop(_, _)
Choices_from_toml_loop(queue, choices) ==
    IF queue = <<>> THEN Ok(<<>>, choices)
    ELSE LET cmd == parse_cmd(Head(queue).chord)
             a == from_str(Head(queue).id)
         IN  IF ~cmd.ok THEN Err
             ELSE Choices_from_toml_loop(Tail(queue),
                      IF IsSome(a)
                      THEN Insert(choices, cmd.val, ActsOption(<<Unwrap(a)>>))
                      ELSE choices)

Choices_from_toml(value) == Choices_from_toml_loop(value, <<>>)

\* Choices::try_from_toml up to its emptiness test: what the calls of
\* Choices::from_toml leave in `choices` (the three calls read the same
\* entries, the type parameter is not used)
Extended(value) ==
    LET c == Choices_from_toml(value) IN IF c.ok THEN c.val ELSE <<>>

\* CommandGroup::from_toml: the group, when name, binding and help are
\* strings and the binding parses
CommandGroup_from_toml(id, value) ==
    IF IsSome(value.name) /\ IsSome(value.binding) /\ IsSome(value.help)
       /\ parse_cmd(Unwrap(value.binding)).ok
    THEN Some([id |-> id, binding |-> parse_cmd(Unwrap(value.binding)).val])
    ELSE None

\* the tables of a configuration file as the builders read them: the
\* bindings each mode's table gives, the binding each declared group gives
Read(config) ==
    [groups |-> [m \in DOMAIN config.groups |-> Extended(config.groups[m])],
     commands |-> [g \in Range(GroupIds) |->
                      IF g \in DOMAIN config.commands
                         /\ IsSome(CommandGroup_from_toml(g, config.commands[g]))
                      THEN Some(Unwrap(CommandGroup_from_toml(g, config.commands[g])).binding)
                      ELSE None]]

\* ChoiceMap::new
ChoiceMap_new == <<>>

\* ChoiceMap::from_toml as an Option: None when no mode is left
ChoiceMap_from_toml(value) ==
    LET cm == from_toml([m \in DOMAIN value |-> Extended(value[m])])
    IN  IF DOMAIN cm = {} THEN None ELSE Some(cm)

\* CommandMode::default: the mode set of the configuration; its error arm
\* would fall back on ChoiceMap::new
CommandMode_default(config) == with_config(Read(config))

\* impl From<&NamedKey> for Command
CommandFromNamedKey(named) ==
    CASE named = "Enter" -> Command(<<"E", "n", "t", "e", "r">>, NoMods)
      [] named = "Escape" -> Command(<<"E", "s", "c", "a", "p", "e">>, NoMods)
      [] named = "ArrowLeft" ->
             Command(<<"A", "r", "r", "o", "w", "L", "e", "f", "t">>, NoMods)
      [] named = "ArrowRight" ->
             Command(<<"A", "r", "r", "o", "w", "R", "i", "g", "h", "t">>, NoMods)
      [] named = "ArrowUp" -> Command(<<"A", "r", "r", "o", "w", "U", "p">>, NoMods)
      [] named = "ArrowDown" ->
             Command(<<"A", "r", "r", "o", "w", "D", "o", "w", "n">>, NoMods)
      [] OTHER -> Command(<<>>, NoMods)

\* impl From<&NamedAct> for Command
CommandFromNamedAct(a) ==
    CASE a = "Enter" -> Command(<<"e", "n", "t", "e", "r">>, NoMods)
      [] a = "Escape" -> Command(<<"e", "s", "c", "a", "p", "e">>, NoMods)
      [] a = "ArrowLeft" ->
             Command(<<"a", "r", "r", "o", "w", "_", "l", "e", "f", "t">>, NoMods)
      [] a = "ArrowRight" ->
             Command(<<"a", "r", "r", "o", "w", "_", "r", "i", "g", "h", "t">>, NoMods)
      [] a = "ArrowUp" -> Command(<<"a", "r", "r", "o", "w", "_", "u", "p">>, NoMods)
      [] a = "ArrowDown" ->
             Command(<<"a", "r", "r", "o", "w", "_", "d", "o", "w", "n">>, NoMods)
      [] a = "Be" -> Command(<<"b", "e">>, NoMods)

\* the named keys the dispatcher receives (Tab stands for every other one)
NamedKeys == {"Enter", "Escape", "ArrowLeft", "ArrowRight", "ArrowUp", "ArrowDown", "Tab"}

\* NamedAct::iter
NamedActs == <<"Enter", "Escape", "ArrowLeft", "ArrowRight", "ArrowUp", "ArrowDown", "Be">>

\* Choices::named: every NamedAct bound under its own chord
RECURSIVE named_loop(_, _)
named_loop(acts, choices) ==
    IF acts = <<>> THEN choices
    ELSE named_loop(Tail(acts),
             Insert(choices, CommandFromNamedAct(Head(acts)),
                    ActsOption(<<[kind |-> "Named", act |-> Head(acts)]>>)))

named(choices) == named_loop(NamedActs, choices)

\* the configuration files of the model: a table per mode with up to
\* MaxEntries entries, a declaration per group
MaxEntries == 2

BadChord == <<"+">>

ChordTexts == {<<"n">>, BadChord}

Identifiers == <<"bogus", "minimize", "next">>

RECURSIVE TomlTablesFrom(_, _)
TomlTablesFrom(i, room) ==
    IF i > Len(Identifiers) THEN {<<>>}
    ELSE TomlTablesFrom(i + 1, room)
         \cup (IF room = 0 THEN {}
               ELSE {<<[id |-> Identifiers[i], chord |-> c]>> \o t :
                        c \in ChordTexts, t \in TomlTablesFrom(i + 1, room - 1)})

TomlTables == TomlTablesFrom(1, MaxEntries)

GroupDeclarations ==
    {[name |-> Some("Window"), binding |-> Some(<<"w">>), help |-> Some("help")],
     [name |-> Some("Window"), binding |-> Some(BadChord), help |-> Some("help")],
     [name |-> Some("Window"), binding |-> Some(<<"w">>), help |-> None]}

TomlConfigs ==
    {[groups |-> g, commands |-> c] :
        g \in [{"normal", "window"} -> TomlTables],
        c \in UNION {[D -> GroupDeclarations] : D \in SUBSET Range(GroupIds)}}

\* a configuration without tables
EmptyToml == [groups |-> <<>>, commands |-> <<>>]

\* the builders of the mode set, each applied to the configuration
New ==
    /\ built' = [fn |-> "new", out |-> Some(ChoiceMap_new)]
    /\ UNCHANGED <<dock_vars, dispatch_vars, parse_vars, toml, focus_vars, name_vars>>

FromToml ==
    /\ built' = [fn |-> "from_toml", out |-> ChoiceMap_from_toml(toml.groups)]
    /\ UNCHANGED <<dock_vars, dispatch_vars, parse_vars, toml, focus_vars, name_vars>>

WithConfig ==
    /\ built' = [fn |-> "with_config", out |-> Some(with_config(Read(toml)))]
    /\ UNCHANGED <<dock_vars, dispatch_vars, parse_vars, toml, focus_vars, name_vars>>

Default ==
    /\ built' = [fn |-> "default", out |-> Some(CommandMode_default(toml))]
    /\ UNCHANGED <<dock_vars, dispatch_vars, parse_vars, toml, focus_vars, name_vars>>

Named ==
    /\ built' = [fn |-> "named", out |-> Some(named(<<>>))]
    /\ UNCHANGED <<dock_vars, dispatch_vars, parse_vars, toml, focus_vars, name_vars>>

\* -------------------------------------------------------------- focus tree
\* A Tree is [flags, leaves, nodes, windows, select, node_index,
\* window_index, panic]; nodes maps a node's Uuid to its Node record
\* [leaves, window, leaf_index], leaves maps a leaf's Uuid to the egui Id
\* of its widget. A call returns [t, val]: the tree it leaves and its value.
FocusOk(t, v) == [t |-> t, val |-> v]

\* the call panicked: an index out of bounds, or a usize subtraction below
\* zero (which panics in a debug build and wraps to an index out of bounds
\* in a release build)
FocusPanic(t) == [t |-> [t EXCEPT !.panic = TRUE], val |-> None]

\* Tree::new
Tree_new ==
    [flags |-> <<>>, leaves |-> <<>>, nodes |-> <<>>, windows |-> <<>>,
     select |-> None, node_index |-> 0, window_index |-> 0, panic |-> FALSE]

\* Tree::window: the Uuid is the next unused number
Tree_window(t) ==
    LET id == Len(t.windows) + 1
    IN  FocusOk([t EXCEPT !.windows = Append(@, id), !.flags = Insert(@, id, FALSE)], id)

\* Tree::leaf (Leaf::from_id)
Tree_leaf(t, id) ==
    LET leaf_id == Cardinality(DOMAIN t.leaves) + 1
    IN  FocusOk([t EXCEPT !.leaves = Insert(@, leaf_id, id)], leaf_id)

\* Tree::node (Node::with_tree)
Tree_node(t) ==
    LET id == Cardinality(DOMAIN t.nodes) + 1
    IN  FocusOk([t EXCEPT !.nodes = Insert(@, id, [leaves |-> <<>>, window |-> None,
                                                   leaf_index |-> 0])], id)

\* Tree::with_leaf as Lens::run calls it, with the node first: the leaf is
\* pushed on the node's leaves when both are registered
Tree_with_leaf(t, node, leaf) ==
    IF leaf \in DOMAIN t.leaves /\ node \in DOMAIN t.nodes
    THEN [t EXCEPT !.nodes[node].leaves = Append(@, leaf)]
    ELSE t

\* Tree::with_window
Tree_with_window(t, node, window) ==
    IF node \in DOMAIN t.nodes THEN [t EXCEPT !.nodes[node].window = Some(window)] ELSE t

\* Tree::get_window: the nodes of the window, in the order the HashMap
\* yields them (the same at every call; here by Uuid)
get_window(t, window) ==
    Ascending({n \in DOMAIN t.nodes : t.nodes[n].window = Some(window)})

\* Tree::current_window
current_window(t) ==
    IF InBounds(t.windows, t.window_index)
    THEN FocusOk(t, At(t.windows, t.window_index))
    ELSE FocusPanic(t)

\* the index expression that ends a call: v[i]
Indexed(t, v, i) == IF InBounds(v, i) THEN FocusOk(t, At(v, i)) ELSE FocusPanic(t)

\* variant: next_window that wraps one step late
next_window_late_wrap(t) ==
    IF Len(t.windows) = 0 THEN FocusPanic(t)
    ELSE IF t.window_index + 1 > Len(t.windows)
         THEN Indexed([t EXCEPT !.window_index = 0], t.windows, 0)
         ELSE Indexed([t EXCEPT !.window_index = @ + 1], t.windows, t.window_index + 1)

\* Tree::next_window
next_window(t) ==
    IF Len(t.windows) = 0 THEN FocusPanic(t)
    ELSE IF t.window_index + 1 > Len(t.windows) - 1
         THEN Indexed([t EXCEPT !.window_index = 0], t.windows, 0)
         ELSE Indexed([t EXCEPT !.window_index = @ + 1], t.windows, t.window_index + 1)

\* Tree::previous_window
previous_window(t) ==
    IF t.window_index = 0
    THEN Indexed([t EXCEPT !.window_index = Len(t.windows) - 1], t.windows,
                 Len(t.windows) - 1)
    ELSE Indexed([t EXCEPT !.window_index = @ - 1], t.windows, t.window_index - 1)

\* Tree::current_node
current_node(t) ==
    IF current_window(t).t.panic THEN FocusPanic(t)
    ELSE Indexed(t, get_window(t, current_window(t).val), t.node_index)

\* Tree::next_node and Tree::previous_node, on the nodes of the current window
next_node_in(t, ns) ==
    IF Len(ns) = 0 THEN FocusPanic(t)
    ELSE IF t.node_index = Len(ns) - 1
         THEN Indexed([t EXCEPT !.node_index = 0], ns, 0)
         ELSE Indexed([t EXCEPT !.node_index = @ + 1], ns, t.node_index + 1)

Tree_next_node(t) ==
    IF current_window(t).t.panic THEN FocusPanic(t)
    ELSE next_node_in(t, get_window(t, current_window(t).val))

previous_node_in(t, ns) ==
    IF t.node_index = 0
    THEN Indexed([t EXCEPT !.node_index = Len(ns) - 1], ns, Len(ns) - 1)
    ELSE Indexed([t EXCEPT !.node_index = @ - 1], ns, t.node_index - 1)

Tree_previous_node(t) ==
    IF current_window(t).t.panic THEN FocusPanic(t)
    ELSE previous_node_in(t, get_window(t, current_window(t).val))

\* Node::current_leaf, Node::next_leaf and Node::previous_leaf of node n
Node_current_leaf(t, n) == Indexed(t, t.nodes[n].leaves, t.nodes[n].leaf_index)

Node_next_leaf(t, n) ==
    IF Len(t.nodes[n].leaves) = 0 THEN FocusPanic(t)
    ELSE IF t.nodes[n].leaf_index = Len(t.nodes[n].leaves) - 1
         THEN Indexed([t EXCEPT !.nodes[n].leaf_index = 0], t.nodes[n].leaves, 0)
         ELSE Indexed([t EXCEPT !.nodes[n].leaf_index = @ + 1], t.nodes[n].leaves,
                      t.nodes[n].leaf_index + 1)

Node_previous_leaf(t, n) ==
    IF t.nodes[n].leaf_index = 0
    THEN Indexed([t EXCEPT !.nodes[n].leaf_index = Len(t.nodes[n].leaves) - 1],
                 t.nodes[n].leaves, Len(t.nodes[n].leaves) - 1)
    ELSE Indexed([t EXCEPT !.nodes[n].leaf_index = @ - 1], t.nodes[n].leaves,
                 t.nodes[n].leaf_index - 1)

\* the Option a leaf call of the Tree returns: the node's answer when the
\* current node is registered
OfCurrentNode(t, cn, r) ==
    IF cn.t.panic THEN FocusPanic(t)
    ELSE IF cn.val \notin DOMAIN t.nodes THEN FocusOk(t, None)
    ELSE IF r.t.panic THEN r
    ELSE FocusOk(r.t, Some(r.val))

\* Tree::current_leaf, Tree::next_leaf and Tree::previous_leaf
current_leaf(t) ==
    OfCurrentNode(t, current_node(t),
        IF current_node(t).val \in DOMAIN t.nodes
        THEN Node_current_leaf(t, current_node(t).val) ELSE FocusOk(t, None))

next_leaf(t) ==
    OfCurrentNode(t, current_node(t),
        IF current_node(t).val \in DOMAIN t.nodes
        THEN Node_next_leaf(t, current_node(t).val) ELSE FocusOk(t, None))

previous_leaf(t) ==
    OfCurrentNode(t, current_node(t),
        IF current_node(t).val \in DOMAIN t.nodes
        THEN Node_previous_leaf(t, current_node(t).val) ELSE FocusOk(t, None))

\* the body shared by select_current, select_next and select_previous: the
\* leaf's egui Id becomes the pending focus request
Selected(r) ==
    IF r.t.panic THEN r.t
    ELSE IF IsSome(r.val) /\ Unwrap(r.val) \in DOMAIN r.t.leaves
         THEN [r.t EXCEPT !.select = Some(r.t.leaves[Unwrap(r.val)])]
         ELSE r.t

select_current(t) == Selected(current_leaf(t))

select_next(t) == Selected(next_leaf(t))

select_previous(t) == Selected(previous_leaf(t))

\* a move, then select_current unless the move panicked
ThenSelectCurrent(r) == IF r.t.panic THEN r.t ELSE select_current(r.t)

select_next_node(t) == ThenSelectCurrent(Tree_next_node(t))

select_previous_node(t) == ThenSelectCurrent(Tree_previous_node(t))

select_next_window(t) == ThenSelectCurrent(next_window(t))

select_previous_window(t) == ThenSelectCurrent(previous_window(t))

\* the EguiAct variants that reach the focus tree
EguiActs == {"Right", "Left", "Up", "Down", "Next", "Previous", "NextWindow",
             "PreviousWindow"}

\* Lens::act
Lens_act(t, a) ==
    CASE a = "Right" -> ThenSelectCurrent(Tree_next_node(t))
      [] a = "Left" -> ThenSelectCurrent(Tree_previous_node(t))
      [] a = "Up" -> select_previous(t)
      [] a = "Down" -> select_next(t)
      [] a = "Next" -> select_next_node(t)
      [] a = "Previous" -> select_previous_node(t)
      [] a = "NextWindow" -> select_next_window(t)
      [] a = "PreviousWindow" -> select_previous_window(t)

\* the egui Ids of the widgets Lens::run draws: the heading and the two
\* buttons of "Whimsy UI", the two buttons of "Counter", the owner label of
\* a row of "Parcels"
HeadingId == 100

UiButtons == <<101, 102>>

CounterButtons == <<103, 104>>

OwnerId(row) == 110 + row

\* the rows of the parcels table a pass can show: a range of up to MaxRows
MaxRows == 2

RowRanges == {a..b : a \in 1..MaxRows, b \in 0..MaxRows}

\* Lens::in_focus followed by the clearing of the request
Drawn(t, id) == IF t.select = Some(id) THEN [t EXCEPT !.select = None] ELSE t

\* the first lines of Lens::run: the three windows, once
SetWindows(t) ==
    IF DOMAIN t.flags = {}
    THEN Tree_window(Tree_window(Tree_window(t).t).t).t
    ELSE t

\* a window with two buttons: the widgets are drawn, and on the first pass
\* registered as the leaves of a new node of the window
NodeOf(t, leaf1, leaf2, node, window) ==
    [Tree_with_window(Tree_with_leaf(Tree_with_leaf(t, node, leaf1), node, leaf2), node, window)
        EXCEPT !.flags[window] = TRUE]

ButtonWindow(t, ids, first, window) ==
    LET drawn == Drawn(Drawn(t, ids[1]), ids[2])
        l1 == Tree_leaf(drawn, ids[1])
        l2 == Tree_leaf(l1.t, ids[2])
        n == Tree_node(l2.t)
    IN  IF first THEN NodeOf(n.t, l1.val, l2.val, n.val, window) ELSE drawn

\* the rows of "Parcels" shown in this pass, in order: on the first pass
\* each becomes a leaf of the table's node, and the request is cleared in
\* the local copy when a row carries it
RECURSIVE Rows(_, _, _, _)
Rows(t, rows, first, table) ==
    IF rows = <<>> THEN t
    ELSE LET l == Tree_leaf(t, OwnerId(Head(rows)))
             reg == IF first THEN Tree_with_leaf(l.t, table, l.val) ELSE t
         IN  Rows(Drawn(reg, OwnerId(Head(rows))), Tail(rows), first, table)

ParcelsWindow(t, rows, first) ==
    LET n == Tree_node(t)
        table == IF first THEN Tree_with_window(n.t, n.val, 3) ELSE t
        shown == Rows(table, Ascending(rows), first, n.val)
    IN  IF first /\ rows # {} THEN [shown EXCEPT !.flags[3] = TRUE] ELSE shown

\* Lens::run: one draw pass that shows the rows `rows` of the parcels table
Lens_run(t, rows) ==
    LET first == DOMAIN t.flags = {}
        w == SetWindows(t)
        ui_window == ButtonWindow(Drawn(w, HeadingId), UiButtons, first, 1)
        counter == ButtonWindow(ui_window, CounterButtons, first, 2)
    IN  ParcelsWindow(counter, rows, first)

\* the handlers that drive the focus tree
LensAct(a) ==
    /\ ~focus.panic
    /\ focus' = Lens_act(focus, a)
    /\ fop' = a
    /\ UNCHANGED <<dock_vars, dispatch_vars, parse_vars, config_vars, name_vars>>

LensRun(rows) ==
    /\ ~focus.panic
    /\ focus' = Lens_run(focus, rows)
    /\ fop' = "run"
    /\ UNCHANGED <<dock_vars, dispatch_vars, parse_vars, config_vars, name_vars>>

InitFocus == focus = Tree_new /\ fop = "new"

\* --------------------------------------------------------------- tab names
\* the names the Numbered generator can yield: any of them at any call
MaxNames == 4

NamePool == 1..MaxNames

\* TabState::new: the initial tab is named by the generator; the set the
\* name is inserted in is shadowed by a new HashSet before the TabState is
\* built, so tab_names starts empty
InitNames(pool) == tab_names = {} /\ \E name \in pool : issued = <<name>>

\* TabState::new_name: the first generated name that tab_names does not
\* hold is inserted and returned
new_name ==
    /\ \E name \in NamePool \ tab_names :
          /\ tab_names' = tab_names \cup {name}
          /\ issued' = Append(issued, name)
    /\ UNCHANGED <<dock_vars, dispatch_vars, parse_vars, config_vars, focus_vars>>


\* ---------------------------------------------------------- specifications
InitDock ==
    /\ tree = <<<<0, 0, 0>>>>
    /\ ts = NewTabState
    /\ op = "new"
    /\ ret = FALSE

\* the sources do not hold the construction of the dispatcher's state: the
\* loop is entered with the bindings of the config and any of the modes
InitDispatch(configs, modes) ==
    /\ command \in {with_config(c) : c \in configs}
    /\ command_key \in modes
    /\ key = None
    /\ prev = None

\* the chord string the parser is handed; nothing parsed yet
InitParser(inputs) ==
    /\ text \in inputs
    /\ parsed = [fn |-> "none", out |-> Err]

\* the configuration handed to the builders; nothing built yet
InitConfig(configs) ==
    /\ toml \in configs
    /\ built = [fn |-> "none", out |-> None]

\* the parts of the state a specification leaves at their initial value
InitRest == InitConfig({EmptyToml}) /\ InitFocus /\ InitNames({1})

Init == InitDock /\ InitDispatch({ExampleConfig}, {"normal"}) /\ InitParser({<<>>}) /\ InitRest

\* the program as its handlers drive the cursor engine
Next == (\E a \in Dock : act(a)) \/ ui

Spec == Init /\ [][Next]_vars

\* the key dispatch loop over every configuration
InitKeys == InitDock /\ InitDispatch(Configs, ModeNames) /\ InitParser({<<>>}) /\ InitRest

NextKeys == \E c \in Chords : KeyboardInput(c)

SpecKeys == InitKeys /\ [][NextKeys]_vars

\* the cascade scenario: surfaces [0, 1], nodes {0: [0, 1], 1: [2]}, tabs
\* {0: [0, 1], 1: [2], 2: [3]}, the TabState positioned at (0, 0, 0)
CascadeTree == <<<<0, 0, 0>>, <<0, 0, 1>>, <<0, 1, 2>>, <<1, 2, 3>>>>

InitCascade ==
    /\ tree = CascadeTree
    /\ ts = update_records(NewTabState, CascadeTree)
    /\ op = "new"
    /\ ret = FALSE
    /\ InitDispatch({ExampleConfig}, {"normal"})
    /\ InitParser({<<>>}) /\ InitRest

\* the scenario's hierarchy stays as it is: no draw pass restructures it
NextCascade == \E a \in Dock : act(a)

SpecCascade == InitCascade /\ [][NextCascade]_vars

\* the builders of the mode set over every configuration file
InitBuild ==
    /\ InitDock /\ InitDispatch({ExampleConfig}, {"normal"}) /\ InitParser({<<>>})
    /\ InitConfig(TomlConfigs) /\ InitFocus /\ InitNames({1})

NextBuild == New \/ FromToml \/ WithConfig \/ Default \/ Named

SpecBuild == InitBuild /\ [][NextBuild]_vars

\* the focus tree under the lens's handlers and draw passes
InitLens ==
    /\ InitDock /\ InitDispatch({ExampleConfig}, {"normal"}) /\ InitParser({<<>>})
    /\ InitConfig({EmptyToml}) /\ InitFocus /\ InitNames({1})

NextLens == (\E a \in EguiActs : LensAct(a)) \/ (\E rows \in RowRanges : LensRun(rows))

SpecLens == InitLens /\ [][NextLens]_vars

\* the names a TabState hands out
InitTabNames ==
    /\ InitDock /\ InitDispatch({ExampleConfig}, {"normal"}) /\ InitParser({<<>>})
    /\ InitConfig({EmptyToml}) /\ InitFocus /\ InitNames(NamePool)

NextTabNames == new_name

SpecTabNames == InitTabNames /\ [][NextTabNames]_vars

\* ------------------------------------------------------------------ claims
\* a step that called operation a on the TabState
Called(a) == op' = a /\ <<ts, op, ret>> # <<ts', op', ret'>>

\* the TabState as a navigation call sees it, after its update_records
Fresh == update_records(ts, tree)

Levels == {"surface", "node", "tab"}

\* the filtered id list of a level: the positions the level's cursor ranges over
Ids(L, s) ==
    CASE L = "surface" -> [i \in 1..Len(s.surfaces) |-> i - 1]
      [] L = "node" -> IF IsSome(s.surface_index)
                       THEN node_ids(s.records, Unwrap(s.surface_index)) ELSE <<>>
      [] L = "tab" -> IF IsSome(s.node_index)
                      THEN tab_ids(s.records, Unwrap(s.node_index)) ELSE <<>>

Cursor(L, s) == CASE L = "surface" -> s.surface [] L = "node" -> s.node [] L = "tab" -> s.tab

Inc(L, s) ==
    CASE L = "surface" -> increment_surface(s)
      [] L = "node" -> increment_node(s)
      [] L = "tab" -> increment_tab(s)

Dec(L, s) ==
    CASE L = "surface" -> decrement_surface(s)
      [] L = "node" -> decrement_node(s)
      [] L = "tab" -> decrement_tab(s)

UpdateActive(L, s) ==
    CASE L = "surface" -> update_active_surface(s)
      [] L = "node" -> update_active_node(s)
      [] L = "tab" -> update_active_tab(s)

\* k consecutive increment calls: the TabState after them, and whether each
\* of them reported success
RECURSIVE IncTimes(_, _, _)
IncTimes(L, s, k) ==
    IF k = 0 THEN Result(s, TRUE)
    ELSE LET before == IncTimes(L, s, k - 1)
             r == Inc(L, before.ts)
         IN  Result(r.ts, before.ret /\ r.ret /\ ~r.ts.panic)

\* C1: in the cascade scenario one next_surface call from (0, 0, 0) returns
\* true, leaves surface_index = 1, node_index = 2, tab_index = 3, and has
\* requested focus on (1, 2) and then on (1, 2, 3).
C1_Cascade ==
    [][(/\ tree = CascadeTree
        /\ ts.surface = 0 /\ ts.node = 0 /\ ts.tab = 0
        /\ ts.surface_index = Some(0) /\ ts.node_index = Some(0)
        /\ ts.tab_index = Some(0)
        /\ Called("NextSurface"))
       => (/\ ret'
           /\ ts'.surface_index = Some(1)
           /\ ts'.node_index = Some(2)
           /\ ts'.tab_index = Some(3)
           /\ ts'.focus = <<<<"node", 1, 2>>, <<"tab", 1, 2, 3>>>>)]_vars

C1_Witness ==
    /\ tree = CascadeTree /\ op = "NextSurface" /\ ret
    /\ ts.surface_index = Some(1) /\ ts.node_index = Some(2) /\ ts.tab_index = Some(3)
    /\ Len(ts.focus) = 2

\* the last key press entered a group: it was looked up in "normal" and
\* found a GroupRef
EnteredGroup(k) ==
    IsSome(k) /\ Unwrap(k).mode = "normal" /\ IsSome(Unwrap(k).found)
        /\ Unwrap(Unwrap(k).found).kind = "Commands"

\* C2: after a chord resolved to a GroupRef, the next chord looked up
\* leaves the active mode "normal", whether it was found or not.
C2_OneShotGroupMode ==
    [][(EnteredGroup(key) /\ key' # key) => command_key' = "normal"]_vars

\* C3: when c1 is bound to GroupRef g in "normal" and c2 to actions A in g,
\* c1 followed by c2 looks c2 up in g, dispatches exactly A, and leaves
\* "normal" as the mode of the third lookup; every chord is looked up in the
\* active mode.
C3_GroupIndirection ==
    [][key' # key =>
        /\ Unwrap(key').mode = command_key
        /\ EnteredGroup(key) =>
             LET g == Unwrap(Unwrap(key).found).id
                 c == Unwrap(key').chord
             IN  (g \in DOMAIN command /\ c \in DOMAIN command[g]
                      /\ command[g][c].kind = "Acts")
                 => (/\ Unwrap(key').mode = g
                     /\ Unwrap(key').acts = command[g][c].acts
                     /\ command_key' = "normal")]_vars

C3_Witness ==
    /\ EnteredGroup(prev) /\ IsSome(key)
    /\ Unwrap(key).mode = Unwrap(Unwrap(prev).found).id
    /\ Unwrap(key).acts # <<>>
    /\ Unwrap(key).chord \in DOMAIN command["normal"]
    /\ command["normal"][Unwrap(key).chord] # Unwrap(Unwrap(key).found)
    /\ command_key = "normal"

\* the TabStates a call can be made on: the current one, and the current one
\* with a freshly captured snapshot (a panicked program takes no more calls)
Callable == {s \in {ts, Fresh} : ~s.panic}

\* C4: with a filtered id list of length N >= 2 and the cursor at position i
\* of it, each of N consecutive increment calls reports success, the k-th
\* leaves the cursor at position (i + k) mod N, so the last position wraps
\* to position 0 and the N-th call is back at position i.
C4_WrapCycle ==
    \A L \in Levels : \A s \in Callable :
        LET ids == Ids(L, s)
            N == Len(ids)
            pos == Position(ids, Cursor(L, s))
        IN  (N >= 2 /\ IsSome(pos)) =>
                \A k \in 1..N :
                    LET r == IncTimes(L, s, k)
                    IN  r.ret /\ Cursor(L, r.ts) = At(ids, (Unwrap(pos) + k) % N)

C4_Witness ==
    /\ op = "NextTab" /\ ret
    /\ Len(Ids("tab", ts)) = 3 /\ Range(Ids("tab", ts)) = {0, 1, 2}
    /\ ts.tab = 0

\* C5: with a filtered id list of length N >= 2, decrement at the first
\* position moves the cursor to the last position, and decrement right after
\* increment restores the cursor, at every level.
C5_DecrementInverse ==
    \A L \in Levels : \A s \in Callable :
        LET ids == Ids(L, s)
            N == Len(ids)
            pos == Position(ids, Cursor(L, s))
        IN  (N >= 2 /\ IsSome(pos)) =>
                /\ Unwrap(pos) = 0 =>
                     LET d == Dec(L, s)
                     IN  d.ret /\ ~d.ts.panic /\ Cursor(L, d.ts) = At(ids, N - 1)
                /\ LET d == Dec(L, Inc(L, s).ts)
                   IN  ~d.ts.panic /\ Cursor(L, d.ts) = Cursor(L, s)

\* C6: no sequence of navigation calls and hierarchy edits reaches an
\* out-of-bounds index or an unsigned underflow in the cursor engine.
C6_NoPanic == ~ts.panic

\* C7: whenever the filtered id list of a level has exactly one element,
\* increment and decrement of that level return false and leave the
\* level's cursor unchanged.
C7_Singleton ==
    \A L \in Levels : \A s \in Callable :
        Len(Ids(L, s)) = 1 =>
            /\ ~Inc(L, s).ret /\ Cursor(L, Inc(L, s).ts) = Cursor(L, s)
            /\ ~Dec(L, s).ret /\ Cursor(L, Dec(L, s).ts) = Cursor(L, s)

\* C8: when the filtered id list of a level is empty, increment, decrement
\* and update_active of that level return false and leave the cursors and
\* the Option indices (the whole TabState) unchanged, without a panic.
C8_Empty ==
    \A L \in Levels : \A s \in Callable :
        Ids(L, s) = <<>> =>
            /\ Inc(L, s) = Result(s, FALSE)
            /\ Dec(L, s) = Result(s, FALSE)
            /\ UpdateActive(L, s) = Result(s, FALSE)

C8_Witness ==
    /\ op \in {"NextSurface", "PreviousNode", "NextTab"} /\ ~ret /\ ~ts.panic
    /\ tree = <<>> /\ ts.records = <<>>
    /\ \A L \in Levels : Ids(L, ts) = <<>>

\* C9: when the node (tab) cursor is not in the non-empty filtered id list
\* of the active surface (node), update_active_node (update_active_tab)
\* returns true and sets node_index (tab_index) to the id at the first
\* position of that list, a node of the active surface (a tab of the active
\* node).
C9_Repair ==
    \A s \in Callable :
        /\ LET ids == Ids("node", s)
               r == update_active_node(s)
           IN  (ids # <<>> /\ s.node \notin Range(ids)) =>
                   /\ r.ret /\ ~r.ts.panic
                   /\ r.ts.node_index = Some(At(nodes(s.records), At(ids, 0)))
                   /\ \E i \in 1..Len(s.records) :
                         /\ s.records[i].surface_index = Unwrap(s.surface_index)
                         /\ s.records[i].node_index = Unwrap(r.ts.node_index)
        /\ LET ids == Ids("tab", s)
               r == update_active_tab(s)
           IN  (ids # <<>> /\ s.tab \notin Range(ids)) =>
                   /\ r.ret /\ ~r.ts.panic
                   /\ r.ts.tab_index = Some(At(tabs(s.records), At(ids, 0)))
                   /\ \E i \in 1..Len(s.records) :
                         /\ s.records[i].node_index = Unwrap(s.node_index)
                         /\ s.records[i].tab_index = Unwrap(r.ts.tab_index)

\* a surface call took the repair path of update_active_node: the node
\* cursor it left behind is outside of the filtered list of the new surface
C9_Witness ==
    /\ op \in {"NextSurface", "PreviousSurface"} /\ ret
    /\ Ids("node", ts) # <<>> /\ ts.node \notin Range(Ids("node", ts))
    /\ ts.node_index = Some(At(ts.nodes, At(Ids("node", ts), 0)))

\* C10: after a next_surface or previous_surface call on a hierarchy that
\* has a surface, the surface cursor is a position of the surface list and
\* surface_index names a surface of the hierarchy.
C10_StaleSurfaceRepaired ==
    [][((Called("NextSurface") \/ Called("PreviousSurface")) /\ tree # <<>>)
       => (/\ ts'.surface < Len(ts'.surfaces)
           /\ IsSome(ts'.surface_index)
           /\ \E i \in 1..Len(tree) : tree[i][1] = Unwrap(ts'.surface_index))]_vars

\* the dock actions that read the cursors to decide on navigation or focus
Deciding == Dock \ {"InspectRecords", "Be"}

\* C11: every dock action that takes a navigation or focus decision has
\* re-derived the snapshot from the live hierarchy first: whenever such an
\* action requests focus, the records it holds are those of the hierarchy.
C11_SnapshotFresh ==
    [][((\E a \in Deciding : Called(a)) /\ ts'.focus # <<>>)
       => ts'.records = RecordsFrom(tree)]_vars

\* select_current_tab over every value of the three Option indices (the
\* derived with_surface_index, with_node_index, with_tab_index setters store
\* any of them)
OptionOf(S) == {None} \cup {Some(x) : x \in S}

NodeIds == 0..(2 * MaxLeaves - 2)

TabIds == 0..(MaxTabs - 1)

InitSelect ==
    /\ tree \in Hierarchies
    /\ \E si \in OptionOf(SurfaceIds), ni \in OptionOf(NodeIds), ti \in OptionOf(TabIds) :
          ts = [update_records(NewTabState, tree) EXCEPT
                   !.surface_index = si, !.node_index = ni, !.tab_index = ti]
    /\ op = "new"
    /\ ret = FALSE
    /\ InitDispatch({ExampleConfig}, {"normal"})
    /\ InitParser({<<>>}) /\ InitRest

NextSelect == act("CurrentTab")

SpecSelect == InitSelect /\ [][NextSelect]_vars

\* C12: select_current_tab requests focus only when surface_index,
\* node_index and tab_index are all Some, and then on (surface, node) first
\* and on (surface, node, tab) second; when any of them is None it requests
\* no focus at all and returns normally.
C12_SelectCurrentTab ==
    [][Called("CurrentTab") =>
        /\ ~ts'.panic
        /\ ts'.focus =
             IF IsSome(ts.surface_index) /\ IsSome(ts.node_index) /\ IsSome(ts.tab_index)
             THEN << <<"node", Unwrap(ts.surface_index), Unwrap(ts.node_index)>>,
                     <<"tab", Unwrap(ts.surface_index), Unwrap(ts.node_index),
                       Unwrap(ts.tab_index)>> >>
             ELSE <<>>
        /\ [ts' EXCEPT !.focus = <<>>] = [ts EXCEPT !.focus = <<>>]]_vars

C12_Witness ==
    /\ op = "CurrentTab"
    /\ IsSome(ts.surface_index) /\ IsSome(ts.node_index) /\ ts.tab_index = None
    /\ ts.focus = <<>> /\ ~ts.panic

\* C13: in every snapshot surfaces() holds each surface once, node_ids of a
\* surface holds one position per node of that surface, and tab_ids of a
\* node holds one position per tab of that node.
C13_DedupProjections ==
    \A r \in {ts.records, RecordsFrom(tree)} :
        LET recs == Range(r) IN
        /\ Len(surfaces(r)) = Cardinality({x.surface_index : x \in recs})
        /\ \A x \in recs :
              /\ Len(node_ids(r, x.surface_index)) =
                    Cardinality({y.node_index : y \in
                        {z \in recs : z.surface_index = x.surface_index}})
              /\ Len(tab_ids(r, x.node_index)) =
                    Cardinality({y.tab_index : y \in
                        {z \in recs : z.surface_index = x.surface_index
                                      /\ z.node_index = x.node_index}})

\* C14: after every successful update_active_node (update_active_tab) the
\* stored cursor integer is a member of the filtered list and
\* nodes[node] = node_index (tabs[tab] = tab_index): the repair path also
\* resets the cursor integer.
C14_CursorReset ==
    \A s \in Callable :
        /\ LET r == update_active_node(s)
           IN  (r.ret /\ ~r.ts.panic) =>
                   /\ r.ts.node \in Range(Ids("node", r.ts))
                   /\ InBounds(r.ts.nodes, r.ts.node)
                   /\ r.ts.node_index = Some(At(r.ts.nodes, r.ts.node))
        /\ LET r == update_active_tab(s)
           IN  (r.ret /\ ~r.ts.panic) =>
                   /\ r.ts.tab \in Range(Ids("tab", r.ts))
                   /\ InBounds(r.ts.tabs, r.ts.tab)
                   /\ r.ts.tab_index = Some(At(r.ts.tabs, r.ts.tab))

\* the chord parser applied to chord strings
NextParse == ParseMod \/ ParseStr \/ ParseCmd

InitParse == InitDock /\ InitDispatch({ExampleConfig}, {"normal"}) /\ InitParser(Inputs) /\ InitRest

SpecParse == InitParse /\ [][NextParse]_vars

\* parse_cmd was applied to the chord string i
ParsedCmd(i) == parsed.fn = "parse_cmd" /\ text = i

ParsedStr(i) == parsed.fn = "parse_str" /\ text = i

ParsedMod(i) == parsed.fn = "parse_mod" /\ text = i

Plus == <<" ", "+", " ">>

\* C15: parse_cmd of an uppercase letter alone returns a chord equal to the
\* one parse_cmd returns for "<shift> + " followed by the lowercase letter.
C15_UppercaseImpliesShift ==
    \A n \in 1..Len(UpperCase) :
        ParsedCmd(<<UpperCase[n]>>) =>
            LET shifted == parse_cmd(Bracket(<<"s", "h", "i", "f", "t">>) \o Plus
                                     \o <<LowerCase[n]>>)
            IN  parsed.out.ok /\ shifted.ok /\ parsed.out.val = shifted.val

\* the chord a round trip is to return for chord c
RoundTrip(c) ==
    IF c.key = to_uppercase(c.key) THEN [c EXCEPT !.mods.shift_key = TRUE] ELSE c

\* C16: parse_cmd applied to the Display rendering of a chord succeeds and
\* returns the chord, with shift set when the base is all uppercase.
C16_ChordRoundTrip ==
    \A c \in GeneratedChords :
        ParsedCmd(CommandDisplay(c)) =>
            parsed.out.ok /\ parsed.out.val = RoundTrip(c)

\* C17: for "<T> + k" with T alphanumeric and not a modifier name,
\* parse_mod succeeds with no modifier and the rest of the input at k, and
\* parse_str returns key k with the four flags false.
C17_UnknownModifier ==
    \A T \in UnknownTokens : \A k \in BaseKeys :
        LET i == Bracket(T) \o Plus \o k IN
        /\ ParsedMod(i) => parsed.out = Ok(k, None)
        /\ ParsedStr(i) => parsed.out = Ok(<<>>, Some(Command(k, NoMods)))

C17_Witness ==
    /\ ParsedStr(Bracket(<<"S", "h">>) \o Plus \o <<"k">>)
    /\ parsed.out.ok
    /\ Unwrap(parsed.out.val) = Command(<<"k">>, NoMods)

\* the flag each bracketed token stands for
FlagsOf(T) ==
    CASE T \in {<<"c", "r">>, <<"c", "o", "n", "t", "r", "o", "l">>} -> {"control_key"}
      [] T = <<"a", "l", "t">> -> {"alt_key"}
      [] T = <<"s", "h", "i", "f", "t">> -> {"shift_key"}
      [] T = <<"s", "u", "p", "e", "r">> -> {"super_key"}
      [] OTHER -> {}

\* C18: parse_str on modifier tokens followed by key k returns key k with
\* exactly the flags the tokens name, whatever the order of the tokens.
C18_KnownModifiers ==
    \A ms \in ModSeqs : \A k \in BaseKeys :
        ParsedStr(Prefix(ms, Plus) \o k) =>
            LET flags == UNION {FlagsOf(ms[n]) : n \in 1..Len(ms)} IN
            /\ parsed.out.ok
            /\ Unwrap(parsed.out.val).key = k
            /\ \A f \in {"shift_key", "control_key", "alt_key", "super_key"} :
                  Unwrap(parsed.out.val).mods[f] = (f \in flags)

C18_Witness ==
    /\ ParsedStr(Prefix(<<<<"a", "l", "t">>, <<"c", "r">>>>, Plus) \o <<"k">>)
    /\ parsed.out.ok
    /\ Unwrap(parsed.out.val).mods =
          [shift_key |-> FALSE, control_key |-> TRUE, alt_key |-> TRUE, super_key |-> FALSE]

\* C19: parse_cmd returns an error whenever no alphanumeric base token
\* follows the modifier tokens: empty input, whitespace, modifiers only.
C19_NoBaseIsError ==
    \A i \in NoBaseInputs : ParsedCmd(i) => ~parsed.out.ok

C19_Witness ==
    /\ ParsedCmd(Joined(<<<<"c", "r">>, <<"a", "l", "t">>>>, <<" ", "+", " ">>))
    /\ ~parsed.out.ok

\* C20: parse_cmd of a single ASCII letter returns the letter as key, case
\* preserved, with shift set exactly for an uppercase letter and control,
\* alt and super false.
C20_SingleLetter ==
    \A i \in SingleLetters :
        ParsedCmd(i) =>
            /\ parsed.out.ok
            /\ parsed.out.val.key = i
            /\ parsed.out.val.mods =
                  [shift_key |-> i[1] \in Range(UpperCase), control_key |-> FALSE,
                   alt_key |-> FALSE, super_key |-> FALSE]

C20_Witness ==
    /\ ParsedCmd(<<"q">>) /\ parsed.out.ok
    /\ parsed.out.val = Command(<<"q">>, NoMods)

\* C21: the chord of a named-key event (Enter, Escape, the four arrows) is
\* the chord Choices::named binds the corresponding NamedAct under, so the
\* key finds its act in a table built by Choices::named.
C21_NamedKeyBound ==
    (built.fn = "named") =>
        \A k \in NamedKeys \ {"Tab"} :
            /\ CommandFromNamedKey(k) = CommandFromNamedAct(k)
            /\ CommandFromNamedKey(k) \in DOMAIN Unwrap(built.out)

\* C22: every mode set a builder returns (ChoiceMap::new, ChoiceMap::from_toml,
\* ChoiceMap::with_config, CommandMode::default) has a mode named "normal".
C22_NormalModeExists ==
    (built.fn \in {"new", "from_toml", "with_config", "default"} /\ IsSome(built.out))
        => "normal" \in DOMAIN Unwrap(built.out)

\* the entries of a table that are well-formed: the chord parses and the
\* identifier names an act
WellFormed(table) ==
    {i \in DOMAIN table : parse_cmd(table[i].chord).ok /\ IsSome(from_str(table[i].id))}

\* C23: a table with one malformed entry (a chord that does not parse, or
\* an identifier that names no act) still gives its mode, and every
\* well-formed entry of the table is bound in it.
C23_MalformedEntryDropped ==
    (built.fn = "with_config") =>
        \A m \in DOMAIN toml.groups :
            LET table == toml.groups[m] IN
            (Len(table) = Cardinality(WellFormed(table)) + 1 /\ WellFormed(table) # {}) =>
                /\ m \in DOMAIN Unwrap(built.out)
                /\ \A i \in WellFormed(table) :
                       parse_cmd(table[i].chord).val \in DOMAIN Unwrap(built.out)[m]

\* the groups declared with a name, a binding that parses and a help text
Declared(config) ==
    {g \in DOMAIN config.commands :
        IsSome(CommandGroup_from_toml(g, config.commands[g]))}

\* C24: every group declared with name, parsable binding and help is a
\* registered mode under its id and is referred to under its binding in
\* mode "normal", also when its table has no valid entries.
C24_GroupRegistered ==
    (built.fn = "with_config") =>
        \A g \in Declared(toml) :
            LET cm == Unwrap(built.out)
                group == Unwrap(CommandGroup_from_toml(g, toml.commands[g]))
            IN  /\ g \in DOMAIN cm
                /\ "normal" \in DOMAIN cm
                /\ group.binding \in DOMAIN cm["normal"]
                /\ cm["normal"][group.binding] = CommandsOption(g, group.binding)

\* the active mode has no binding for chord c
Miss(c) == ~(command_key \in DOMAIN command /\ c \in DOMAIN command[command_key])

\* C25: a key press whose chord has no binding in the active mode hands on
\* no act, leaves the dock cursor, the focus tree and its pending focus
\* request as they are, and leaves the active mode "normal" when it was.
C25_LookupMissInert ==
    [][\A c \in Chords :
          (KeyboardInput(c) /\ Miss(c)) =>
              /\ Unwrap(key').acts = <<>>
              /\ UNCHANGED <<dock_vars, focus_vars>>
              /\ (command_key = "normal" => command_key' = "normal")]_vars

C25_Witness ==
    /\ IsSome(key) /\ Unwrap(key).found = None /\ Unwrap(key).mode = "normal"
    /\ command_key = "normal"
    /\ \E c \in Chords : ~Miss(c)

ModifierFlags == {"shift_key", "control_key", "alt_key", "super_key"}

\* C26: Modifiers::and only adds flags (each flag afterwards is the old
\* flag or the other's flag), so the loop of parse_mods keeps every
\* modifier it held when it goes on over the input, and a later token that
\* is no modifier name does not clear the flags of the tokens before it.
C26_AndMonotonic ==
    (parsed.fn = "parse_str" /\ parsed.out.ok) =>
        /\ \A a \in AllModifiers : \A f \in ModifierFlags :
               and(a, Unwrap(parsed.out.val).mods)[f] = (a[f] \/ Unwrap(parsed.out.val).mods[f])
        /\ \A a \in AllModifiers :
               is_modifier(text).val =>
                   /\ parse_mods_loop(parse_mod(text), a).ok
                   /\ \A f \in ModifierFlags :
                          a[f] => parse_mods_loop(parse_mod(text), a).val[f]
        /\ \A ms \in ModSeqs : \A k \in BaseKeys :
               text = Prefix(ms, Plus) \o k =>
                   \A n \in 1..Len(ms) : \A f \in FlagsOf(ms[n]) :
                       Unwrap(parsed.out.val).mods[f]

C26_Witness ==
    /\ ParsedStr(Prefix(<<<<"c", "r">>, <<"o", "t", "h", "e", "r">>>>, Plus) \o <<"k">>)
    /\ parsed.out.ok
    /\ Unwrap(parsed.out.val).mods.control_key

\* n calls of next_window, of Tree::next_node, of Tree::next_leaf
RECURSIVE NextWindowTimes(_, _)
NextWindowTimes(t, n) == IF n = 0 THEN t ELSE NextWindowTimes(next_window(t).t, n - 1)

RECURSIVE NextNodeTimes(_, _)
NextNodeTimes(t, n) == IF n = 0 THEN t ELSE NextNodeTimes(Tree_next_node(t).t, n - 1)

RECURSIVE NextLeafTimes(_, _)
NextLeafTimes(t, n) == IF n = 0 THEN t ELSE NextLeafTimes(next_leaf(t).t, n - 1)

\* the nodes of the current window and the leaves of the current node
CurrentNodes(t) ==
    IF Len(t.windows) = 0 THEN <<>> ELSE get_window(t, current_window(t).val)

CurrentLeaves(t) ==
    IF Len(CurrentNodes(t)) = 0 THEN <<>> ELSE t.nodes[current_node(t).val].leaves

Degenerate(t) == Len(CurrentLeaves(t)) = 0

\* C28: no navigation call of the focus tree panics, whatever the tree:
\* without windows, nodes or leaves the call leaves the pending focus
\* request as it is.
C28_FocusNeverPanics ==
    [][\A a \in EguiActs :
          LensAct(a) =>
              /\ ~focus'.panic
              /\ Degenerate(focus) => focus'.select = focus.select]_vars

\* C29: a draw pass that finds a pending focus request leaves none behind,
\* whether or not a widget it drew carried the requested Id.
C29_RequestOneShot ==
    [][\A rows \in RowRanges :
          (LensRun(rows) /\ IsSome(focus.select)) => focus'.select = None]_vars

\* C30: a name new_name returns differs from every name the TabState issued
\* before, the initial tab's name included, and is in tab_names afterwards.
C30_NamesUnique ==
    [][new_name =>
          /\ issued'[Len(issued')] \notin Range(issued)
          /\ \A i \in 2..Len(issued') : issued'[i] \in tab_names']_vars

\* the four Snapshot fields of a TabState
Snapshot(s) == <<s.records, s.surfaces, s.nodes, s.tabs>>

\* C31: a draw pass that added a tab has pushed it behind the tabs of a
\* leaf and leaves records, surfaces, nodes and tabs equal to the
\* projections derived from the resulting hierarchy; a pass that added no
\* tab leaves the four fields as they were.
C31_AddTabRefreshes ==
    [][ui =>
          IF ret'
          THEN /\ Snapshot(ts') = Snapshot(update_records(ts, tree'))
               /\ \E i \in 1..Len(tree') : tree'[i][3] >= 1
          ELSE Snapshot(ts') = Snapshot(ts)]_vars

C31_Witness ==
    /\ op = "ui" /\ ret
    /\ Len(tree) = MaxTabs
    /\ ts.records = RecordsFrom(tree)

\* the ids a level's cursor ranges over: the projection read at the
\* positions of the filtered id list
ActiveList(L, s) ==
    LET ids == Ids(L, s)
        all == IF L = "node" THEN s.nodes ELSE s.tabs
    IN  [i \in 1..Len(ids) |-> At(all, ids[i])]

ActiveIndex(L, s) == IF L = "node" THEN s.node_index ELSE s.tab_index

\* the element after x in list, the first one after the last
Following(list, x) == list[((Unwrap(Position(list, x)) + 1) % Len(list)) + 1]

Navigation == {"NextTab", "PreviousTab", "NextNode", "PreviousNode",
               "NextSurface", "PreviousSurface"}

NextOf(L) == IF L = "node" THEN "NextNode" ELSE "NextTab"

\* C32: on an unchanged hierarchy with two or more nodes in the active
\* surface (tabs in the active node), a next_node (next_tab) call that
\* returns true leaves node_index (tab_index) at the element after the
\* previously active one in the filtered list, wrapping at the end, also
\* when the call before it repaired this level in a cascade.
C32_IncrementAdvances ==
    [][\A L \in {"node", "tab"} :
          (/\ op \in Navigation /\ ret /\ ts.records = RecordsFrom(tree)
           /\ Called(NextOf(L)) /\ ret'
           /\ Len(ActiveList(L, ts)) >= 2
           /\ IsSome(ActiveIndex(L, ts))
           /\ Unwrap(ActiveIndex(L, ts)) \in Range(ActiveList(L, ts)))
          => ActiveIndex(L, ts') =
                 Some(Following(ActiveList(L, ts), Unwrap(ActiveIndex(L, ts))))]_vars

\* C33: after a next_* or previous_* call that returned true the three
\* Option indices are Some, and together they are a record of the Snapshot
\* the call took: node_index is a node of surface_index and tab_index a tab
\* of that node in that surface, so the focus requests name existing tabs.
C33_ActiveTripleLive ==
    [][((\E a \in Navigation : Called(a)) /\ ret') =>
          /\ IsSome(ts'.surface_index) /\ IsSome(ts'.node_index) /\ IsSome(ts'.tab_index)
          /\ Record(Unwrap(ts'.surface_index), Unwrap(ts'.node_index),
                    Unwrap(ts'.tab_index)) \in Range(ts'.records)
          /\ \A i \in 1..Len(ts'.focus) :
                 ts'.focus[i][1] = "tab" =>
                     Record(ts'.focus[i][2], ts'.focus[i][3], ts'.focus[i][4])
                         \in Range(ts'.records)]_vars

\* the result of moving a level's cursor and updating its index on the
\* TabState a call finds, its Snapshot refreshed
Moved(L, move(_)) ==
    LET f == update_records(Entry, tree)
        m == move(f)
        moved == IF L = "surface" THEN m.ts.surface # f.surface
                 ELSE m.ts.node # f.node
    IN  moved /\ UpdateActive(L, m.ts).ret

\* C34: next_surface and previous_surface return true exactly when the
\* surface cursor moved and update_active_surface succeeded, next_node and
\* previous_node exactly when the node cursor moved and update_active_node
\* succeeded; the results of the cascaded updates do not enter.
C34_BestEffortCascade ==
    ~ts.panic =>
        /\ ~next_surface(Entry, tree).ts.panic =>
               next_surface(Entry, tree).ret = Moved("surface", increment_surface)
        /\ ~previous_surface(Entry, tree).ts.panic =>
               previous_surface(Entry, tree).ret = Moved("surface", decrement_surface)
        /\ ~next_node(Entry, tree).ts.panic =>
               next_node(Entry, tree).ret = Moved("node", increment_node)
        /\ ~previous_node(Entry, tree).ts.panic =>
               previous_node(Entry, tree).ret = Moved("node", decrement_node)

\* a surface call returned true and its cascades went down to the tab, and
\* the same call on the state reached returns false
C34_Witness ==
    /\ op = "NextSurface" /\ ret /\ ~ts.panic
    /\ Len(ts.focus) = 2
    /\ Len(ts.surfaces) = 2
    /\ ~next_node(Entry, tree).ret /\ ~next_node(Entry, tree).ts.panic

\* impl From<&ModifiersState> for Modifiers: each flag of the window
\* system's modifier state that is held sets the flag of the same name
ModifiersFromState(state) ==
    [shift_key |-> IF state.shift_key THEN TRUE ELSE NoMods.shift_key,
     control_key |-> IF state.control_key THEN TRUE ELSE NoMods.control_key,
     alt_key |-> IF state.alt_key THEN TRUE ELSE NoMods.alt_key,
     super_key |-> IF state.super_key THEN TRUE ELSE NoMods.super_key]

\* Command::new, the chord the dispatcher makes of a character key press
Command_new(k, state) == Command(k, ModifiersFromState(state))

\* the base keys without a letter
DigitKeys == {k \in BaseKeys : Range(k) \subseteq Digits}

\* C35: a binding whose chord text is a digit-only base key without a
\* modifier is parsed to the chord that a press of that key with no modifier
\* held produces (the table is looked up by equality of chords), its shift
\* flag false.
C35_DigitChordReachable ==
    \A k \in DigitKeys :
        ParsedCmd(k) =>
            /\ parsed.out.ok
            /\ ~parsed.out.val.mods.shift_key
            /\ parsed.out.val = Command_new(k, NoMods)

\* the key of next_tab (of next_node) is pressed again and again and nothing
\* else happens any more: the same call as act makes, op telling the
\* repetition from the calls before it
again(a) ==
    /\ ~ts.panic
    /\ op \notin {"again " \o b : b \in {"NextTab", "NextNode"} \ {a}}
    /\ LET r == ActResult(a) IN
          /\ ts' = r.ts
          /\ ret' = (r.ret /\ ~r.ts.panic)
    /\ op' = "again " \o a
    /\ UNCHANGED <<tree, dispatch_vars, parse_vars, config_vars, focus_vars, name_vars>>

Repeating == op \in {"again NextTab", "again NextNode"}

\* the calls that bring the cursor and the hierarchy to the state the
\* repetition starts in
Before == {"PreviousTab", "PreviousNode", "NextSurface"}

NextRepeat ==
    \/ ~Repeating /\ ui
    \/ ~Repeating /\ \E a \in Before : act(a)
    \/ again("NextTab")
    \/ again("NextNode")

\* ENABLED <<again(a)>>_vars as a state predicate: the call can be made and
\* changes the TabState, its result or the operation called last
Pending(a) ==
    /\ ~ts.panic
    /\ op \notin {"again " \o b : b \in {"NextTab", "NextNode"} \ {a}}
    /\ LET r == ActResult(a)
       IN  <<r.ts, r.ret /\ ~r.ts.panic, "again " \o a>> # <<ts, ret, op>>

\* WF_vars(again(a)), ENABLED written as Pending(a) and the steps of again(a)
\* told by the operation they leave in op: the event loop hands
\* every key press to the handler, so a repeated call that changes something
\* is not put off forever
Fair(a) == []<>(~Pending(a)) \/ []<><<op' = "again " \o a>>_<<ts, op, ret>>

SpecRepeat == Init /\ [][NextRepeat]_vars /\ Fair("NextTab") /\ Fair("NextNode")

\* the active node is a node of the hierarchy, the Snapshot being the one the
\* call last made has taken
ActiveNodeExists ==
    /\ ~ts.panic /\ IsSome(ts.surface_index) /\ IsSome(ts.node_index)
    /\ \E i \in 1..Len(ts.records) :
           /\ ts.records[i].surface_index = Unwrap(ts.surface_index)
           /\ ts.records[i].node_index = Unwrap(ts.node_index)

\* t is a tab of the active node
TabOfActiveNode(t) ==
    /\ ActiveNodeExists
    /\ Record(Unwrap(ts.surface_index), Unwrap(ts.node_index), t) \in Range(ts.records)

\* n is a node of the active surface
NodeOfActiveSurface(n) ==
    /\ ActiveNodeExists
    /\ \E i \in 1..Len(ts.records) :
           /\ ts.records[i].surface_index = Unwrap(ts.surface_index)
           /\ ts.records[i].node_index = n

\* C36: while only next_tab is called, every tab of the active node becomes
\* the active tab; while only next_node is called, every node of the active
\* surface becomes the active node.
C36_CyclingVisitsAll ==
    /\ \A t \in 0..(MaxTabs - 1) :
           (op = "again NextTab" /\ TabOfActiveNode(t)) ~> (ts.tab_index = Some(t))
    /\ \A n \in 0..(2 * (MaxLeaves - 1)) :
           (op = "again NextNode" /\ NodeOfActiveSurface(n)) ~> (ts.node_index = Some(n))

\* the repetition of next_tab has come to the last of three tabs of the
\* active node
C36_Witness ==
    /\ op = "again NextTab" /\ ret
    /\ \A t \in 0..2 : TabOfActiveNode(t)
    /\ ts.tab_index = Some(2)

\* three surfaces of one tab each, as they are after two tabs were dragged
\* out of the main surface, and the calls and draw passes that follow
ThreeSurfaces == <<<<0, 0, 0>>, <<1, 0, 0>>, <<2, 0, 0>>>>

InitShrink ==
    /\ tree = ThreeSurfaces
    /\ ts = update_records(NewTabState, ThreeSurfaces)
    /\ op = "new"
    /\ ret = FALSE
    /\ InitDispatch({ExampleConfig}, {"normal"})
    /\ InitParser({<<>>}) /\ InitRest

SpecShrink == InitShrink /\ [][Next]_vars

\* the three cursor integers and the three indices
Cursors(s) == <<s.surface, s.node, s.tab, s.surface_index, s.node_index, s.tab_index>>

\* C37: a next_* or previous_* call that returns false leaves the cursor
\* integers and the three indices as they were and requests no focus.
C37_FailedCallKeepsCursors ==
    [][\A a \in Navigation :
          (Called(a) /\ ~ret' /\ ~ts'.panic) =>
              /\ Cursors(ts') = Cursors(ts)
              /\ ts'.focus = <<>>]_vars

\* C38: next_tab and previous_tab leave surface, node, surface_index and
\* node_index as they were, next_node and previous_node leave surface and
\* surface_index as they were, whatever they return.
C38_LowerLevelsLeaveUpper ==
    [][/\ (Called("NextTab") \/ Called("PreviousTab")) =>
             <<ts'.surface, ts'.node, ts'.surface_index, ts'.node_index>>
                 = <<ts.surface, ts.node, ts.surface_index, ts.node_index>>
       /\ (Called("NextNode") \/ Called("PreviousNode")) =>
             <<ts'.surface, ts'.surface_index>> = <<ts.surface, ts.surface_index>>]_vars

\* next_node has moved the node cursor in the second surface
C38_Witness ==
    /\ op = "NextNode" /\ ret
    /\ ts.surface = 1 /\ ts.surface_index = Some(1)
    /\ ts.node_index = Some(2)

\* the dispatcher started in mode "normal" on a mode set built by
\* ChoiceMap::with_config
InitModes == InitDock /\ InitDispatch(Configs, {"normal"}) /\ InitParser({<<>>}) /\ InitRest

SpecModes == InitModes /\ [][NextKeys]_vars

\* C39: started in mode "normal" on a mode set built by with_config, the
\* active mode is after every sequence of key presses "normal" or a
\* registered group id, and it names a table of the mode set, so that some
\* key press can still be looked up.
C39_ActiveModeResolvable ==
    /\ command_key = "normal" \/ command_key \in DOMAIN command \cap Range(GroupIds)
    /\ command_key \in DOMAIN command

\* --------------------------------------------- the focus tree by its API
\* trees built by the calls of Tree: windows, and nodes put in a window with
\* one leaf each
MaxWindows == 2

MaxNodes == 3

\* Tree::window
TreeWindow ==
    /\ ~focus.panic
    /\ Len(focus.windows) < MaxWindows
    /\ focus' = Tree_window(focus).t
    /\ fop' = "window"
    /\ UNCHANGED <<dock_vars, dispatch_vars, parse_vars, config_vars, name_vars>>

\* Tree::node, Tree::with_window, Tree::leaf and Tree::with_leaf, the calls
\* that register a widget under a new node of window w
NodeInWindow(t, w) ==
    LET n == Tree_node(t)
        placed == Tree_with_window(n.t, n.val, w)
        l == Tree_leaf(placed, n.val)
    IN  Tree_with_leaf(l.t, n.val, l.val)

TreeNode(w) ==
    /\ ~focus.panic
    /\ Cardinality(DOMAIN focus.nodes) < MaxNodes
    /\ w \in Range(focus.windows)
    /\ focus' = NodeInWindow(focus, w)
    /\ fop' = "node"
    /\ UNCHANGED <<dock_vars, dispatch_vars, parse_vars, config_vars, name_vars>>

WindowActs == {"NextWindow", "PreviousWindow"}

NextTree ==
    \/ TreeWindow
    \/ \E w \in 1..MaxWindows : TreeNode(w)
    \/ \E a \in WindowActs \cup {"Next", "Previous"} : LensAct(a)

SpecTree == InitLens /\ [][NextTree]_vars

\* C40: when select_next_window or select_previous_window moves to a window
\* that has nodes, but not as many as the window left, the node cursor is a
\* position in the node list of the new window and the call does not index
\* out of bounds.
C40_NodeCursorValid ==
    [][\A a \in WindowActs :
          (/\ LensAct(a)
           /\ InBounds(focus.windows, focus.window_index)
           /\ InBounds(focus'.windows, focus'.window_index)
           /\ Len(CurrentNodes(focus')) >= 1
           /\ Len(CurrentNodes(focus')) # Len(CurrentNodes(focus)))
          => /\ ~focus'.panic
             /\ focus'.node_index < Len(CurrentNodes(focus'))]_vars

====
